---------------------------- MODULE Spec2Model ----------------------------
(* Crawl orchestration core of WebScraperDesktop:                          *)
(*   - ScraperEngine.scrape_site / stop        (scraper_engine.py)          *)
(*   - BaseScraper.scrape, get_all_product_links (base_scraper.py)          *)
(*   - BooksToScrapeScraper (paged adapter), QuotesToScrapeScraper (flat)   *)
(*   - RateLimiter.wait, ProxyRotator.get_proxy / mark_proxy_failed         *)
(*   - MainWindow.start_scraping / stop_scraping / _scraping_worker         *)
(* Four specifications share the module: Spec (one scrape run), SpecRate    *)
(* (the rate limiter under several callers), SpecProxy (the proxy rotator   *)
(* under several callers) and SpecGui (the window and its worker threads).  *)
EXTENDS Integers, Sequences, FiniteSets, TLC

\* ------------------------------------------------------------------ bounds
MaxPages == 2        \* listing pages of the modelled site
MaxPerPage == 3      \* items (links / quotes) on one listing page
MaxN == 4            \* largest max_products the run is given
MaxReq == 8          \* HTTP requests one run may issue in the model
MaxRPM == 3          \* largest requests_per_minute the limiter is given
MaxCalls == 6        \* RateLimiter.wait() calls in one behaviour
NThreads == 2        \* threads calling the limiter / the rotator
MaxProxies == 3      \* longest proxy_list
MaxGets == 4         \* get_proxy() calls in one behaviour
MaxWorkers == 2      \* worker threads the window starts in one behaviour
MaxStatOps == 5      \* operations on one ScrapingStats collector
MaxTextLen == 3      \* tokens of one rating text
MaxCbRaise == 1      \* progress_callback calls of one run that raise

\* ------------------------------------------------------- program constants
Window == 60         \* the sliding window of RateLimiter.wait, in seconds
MinDelay == 1        \* RateLimiter min_delay (default), in seconds
MaxDelay == 3        \* RateLimiter max_delay (default), in seconds

VARIABLES
    \* ---- run configuration and site (fixed by Init)
    site_name,       \* "Books to Scrape" | "Quotes to Scrape" | "Unknown"
    max_products,    \* scraper_config['max_products']
    delay,           \* scraper_config['delay']
    category_filter, \* TRUE iff scraper_config['category_filter'] is non-empty
    np,              \* number of listing pages of the site (1..MaxPages)
    ipp,             \* ipp[p]: items on listing page p
    cyc,             \* TRUE iff the last page's "next" link leads back to page 1
    \* ---- ScraperEngine
    stop_scraping,   \* ScraperEngine.stop_scraping
    \* ---- the worker's position and locals
    pc,
    current_url,     \* 0 = None, else a listing page
    all_links,       \* get_all_product_links.all_links
    product_links,   \* BaseScraper.scrape.product_links
    idx,             \* position of the item loop in product_links (1-based)
    scraped_data,    \* BaseScraper.scraped_data
    result,          \* what scrape_site returned (records of the DataFrame)
    \* ---- observation of the run (history)
    reqLog,          \* every HTTP request started: <<kind, target>>
    stopReqs,        \* requests started while stop_scraping was already TRUE
    waitCalls,       \* RateLimiter.wait() calls made on behalf of the run
    failedItems,     \* records-to-be whose fetch or parse failed
    failedPages,     \* listing pages whose get_product_links failed
    dataAtStop,      \* scraped_data when stop() was called
    pcAtStop,        \* pc when stop() was called ("" = never)
    cbRaised,        \* progress_callback calls that raised: <<site, at>>
    \* ---- RateLimiter
    rl_rpm, rl_now, rl_last, rl_queue, rl_hist, rl_pc, rl_lock,
    rl_current_time, rl_wake, rl_calls,
    \* ---- ProxyRotator
    px_n, px_index, px_failed, px_lock, px_pc, px_scan, px_depth, px_ret,
    px_retFailed, px_calls,
    px_hist,         \* every proxy get_proxy returned, in order, each with
                     \* the failed set at that moment
    \* ---- MainWindow and its scraping worker threads
    start_button,    \* TRUE iff the Start button is enabled
    stop_button,     \* TRUE iff the Stop button is enabled
    scraping_active, \* MainWindow.scraping_active
    w_pc,            \* w_pc[w]: position of worker thread w
    w_scraped,       \* w_scraped[w]: the scraped_data of w's scrape call is
                     \* non-empty
    w_conf,          \* w_conf[w]: the arguments worker w was started with
    w_req,           \* w_req[w]: session.get calls made by w's scrape call
    w_res,           \* w_res[w]: how w's scrape_site call ended
    ui_queue,        \* callbacks posted with root.after, not yet run
    w_out,           \* w_out[w]: final outcomes of w handled by the UI
    w_stopped,       \* workers that were executing when Stop was clicked
    root_destroyed,  \* TRUE once on_closing has destroyed the window
    exit_dialog,     \* TRUE while on_closing waits in its "Confirm Exit" box
    \* ---- ScrapingStats
    start_time,      \* 0 = None
    end_time,        \* 0 = None
    total_requests, successful_requests, failed_requests,
    total_items_scraped,
    errors,
    st_now,          \* what time.time() returns
    st_ops,          \* operations performed on the collector so far
    summary,         \* the dict the last get_summary() call returned, as
                     \* its holder reads it now
    \* ---- rating parsers
    pr_text,         \* the rating text handed to the parsers
    pr_base,         \* what BaseScraper.parse_rating returned for it
    pr_proc          \* what DataProcessor._parse_rating returned for it

confVars == <<site_name, max_products, delay, category_filter, np, ipp, cyc>>
runVars == <<stop_scraping, pc, current_url, all_links, product_links, idx,
             scraped_data, result>>
histVars == <<reqLog, stopReqs, waitCalls, failedItems, failedPages,
              dataAtStop, pcAtStop, cbRaised>>
scrapeVars == <<confVars, runVars, histVars>>
rateVars == <<rl_rpm, rl_now, rl_last, rl_queue, rl_hist, rl_pc, rl_lock,
              rl_current_time, rl_wake, rl_calls>>
proxyVars == <<px_n, px_index, px_failed, px_lock, px_pc, px_scan, px_depth,
               px_ret, px_retFailed, px_calls, px_hist>>
guiVars == <<start_button, stop_button, scraping_active, w_pc, w_scraped,
             w_conf, w_req,
             w_res, ui_queue, w_out, w_stopped, root_destroyed, exit_dialog>>
runLocals == <<pc, current_url, all_links, product_links, idx, scraped_data,
               result>>
statsVars == <<start_time, end_time, total_requests, successful_requests,
               failed_requests, total_items_scraped, errors, st_now, st_ops,
               summary>>
parseVars == <<pr_text, pr_base, pr_proc>>
auxVars == <<statsVars, parseVars>>
vars == <<scrapeVars, rateVars, proxyVars, guiVars, auxVars>>

\* ------------------------------------------------------------------ helpers
Min(a, b) == IF a < b THEN a ELSE b
Max(a, b) == IF a > b THEN a ELSE b
Range(s) == {s[k] : k \in 1..Len(s)}
Take(s, n) == SubSeq(s, 1, Min(Len(s), Max(n, 0)))
IsPrefix(s, t) == Len(s) <= Len(t) /\ SubSeq(t, 1, Len(s)) = s

Books == "Books to Scrape"
Quotes == "Quotes to Scrape"
\* ScraperEngine.scrapers: the registered adapters
scrapers == {Books, Quotes}

Pages == 1..np
\* The site's "next" pager link of page p (0 = no next link).
NextLink(p) == IF p < np THEN p + 1 ELSE IF cyc THEN 1 ELSE 0

\* (variant) the page's links are taken without regard to the quota left
PageLinksAll(p, cap) == [k \in 1..ipp[p] |-> <<p, k>>]

\* get_product_links on a page that was fetched and parsed: the first `cap`
\* item links of the page, in page order (cap = remaining quota, > 0).
PageLinks(p, cap) == [k \in 1..Min(ipp[p], cap) |-> <<p, k>>]

\* A record: the item <<page, position>> it describes and the number of the
\* HTTP request whose response it was parsed from.
Record(link, r) == <<link[1], link[2], r>>
LinkOf(rec) == <<rec[1], rec[2]>>
LinksOf(recs) == [j \in 1..Len(recs) |-> LinkOf(recs[j])]

\* (variant) the page's quotes are returned last first
PageQuotesReversed(p, bad, r) ==
    SelectSeq([k \in 1..ipp[p] |-> <<p, ipp[p] + 1 - k, r>>],
              LAMBDA q : q[2] # bad)

\* scrape_quotes_from_page on a page that was fetched by request r: one
\* record per quote div whose extract_quote_data returned data (quote `bad`
\* failed; 0 = none).
PageQuotes(p, bad, r) ==
    SelectSeq([k \in 1..ipp[p] |-> <<p, k, r>>], LAMBDA q : q[2] # bad)

\* (variant) a stop flag that is never observed
StopFlagNever == FALSE

\* stop_flag(): the lambda scrape_site hands to the adapter.
StopFlag == stop_scraping

\* return all_links[:max_products]
CapLinks(links, n) == Take(links, n)

\* (variant) the record is appended whatever scrape_product returned
AppendRecordAlways(data, outcome, rec) ==
    IF outcome # "raise" THEN Append(data, rec) ELSE data

\* product_data = scrape_product(url); if product_data: scraped_data.append
AppendRecord(data, outcome, rec) ==
    IF outcome = "ok" THEN Append(data, rec) ELSE data

\* (variant) the page's quotes are appended without the quota test
AppendQuotesNoCap(data, quotes, n) == data \o quotes

\* for quote in quotes: if len(scraped_data) >= max_products: break; append
AppendQuotes(data, quotes, n) == data \o Take(quotes, n - Len(data))

\* BaseScraper.make_request: session.get(url).  No rate limiter is consulted.
MakeRequest(kind, target) ==
    /\ Len(reqLog) < MaxReq
    /\ reqLog' = Append(reqLog, <<kind, target>>)
    /\ stopReqs' = stopReqs + (IF stop_scraping THEN 1 ELSE 0)
    /\ UNCHANGED waitCalls

NoRequest == UNCHANGED <<reqLog, stopReqs, waitCalls>>

Running == [status |-> "running", data |-> <<>>]
Returned(d) == [status |-> "data", data |-> d]
Raised == [status |-> "error", data |-> <<>>]

\* ------------------------------------------------------------ scrape: Init
InitScrape ==
    /\ site_name \in {Books, Quotes, "Unknown"}
    /\ max_products \in 0..MaxN
    /\ delay \in {0, 1}
    /\ category_filter \in BOOLEAN
    /\ np \in 1..MaxPages
    /\ \E k \in 0..MaxPerPage : ipp = [p \in 1..np |-> k]
    /\ cyc \in BOOLEAN
    /\ site_name = "Unknown" =>
          max_products = 1 /\ delay = 0 /\ ~category_filter /\ ~cyc
    /\ stop_scraping = FALSE
    /\ pc = "idle"
    /\ current_url = 0
    /\ all_links = <<>>
    /\ product_links = <<>>
    /\ idx = 0
    /\ scraped_data = <<>>
    /\ result = Running
    /\ reqLog = <<>>
    /\ stopReqs = 0
    /\ waitCalls = 0
    /\ failedItems = {}
    /\ failedPages = {}
    /\ dataAtStop = <<>>
    /\ pcAtStop = ""
    /\ cbRaised = {}

IdleScrape ==
    /\ site_name = "Unknown" /\ max_products = 0 /\ delay = 0
    /\ category_filter = FALSE /\ np = 1 /\ ipp = [p \in 1..1 |-> 0]
    /\ cyc = FALSE /\ stop_scraping = FALSE /\ pc = "off"
    /\ current_url = 0 /\ all_links = <<>> /\ product_links = <<>>
    /\ idx = 0 /\ scraped_data = <<>> /\ result = Running
    /\ reqLog = <<>> /\ stopReqs = 0 /\ waitCalls = 0
    /\ failedItems = {} /\ failedPages = {}
    /\ dataAtStop = <<>> /\ pcAtStop = "" /\ cbRaised = {}

\* --------------------------------------------------------- ScraperEngine
\* ScraperEngine.stop(), called from another thread at any moment.
Stop ==
    /\ pc \notin {"off", "done"}
    /\ ~stop_scraping
    /\ stop_scraping' = TRUE
    /\ dataAtStop' = scraped_data
    /\ pcAtStop' = pc
    /\ UNCHANGED <<auxVars, guiVars, rateVars, proxyVars, confVars, pc, current_url, all_links, product_links, idx,
                   scraped_data, result, reqLog, stopReqs, waitCalls,
                   failedItems, failedPages, cbRaised>>

\* (variant) the stop flag is cleared before the registry lookup
ScrapeSiteEnterResetFirst ==
    /\ pc = "idle"
    /\ stop_scraping' = FALSE
    /\ IF site_name \in scrapers
         THEN pc' = "reset" /\ result' = result
         ELSE pc' = "done" /\ result' = Raised
    /\ UNCHANGED <<auxVars, guiVars, rateVars, proxyVars, confVars, current_url, all_links,
                   product_links, idx, scraped_data, histVars>>

\* scrape_site: the registry lookup.
ScrapeSiteEnter ==
    /\ pc = "idle"
    /\ IF site_name \in scrapers
         THEN pc' = "reset" /\ result' = result
         ELSE pc' = "done" /\ result' = Raised
    /\ UNCHANGED <<auxVars, guiVars, rateVars, proxyVars, confVars, stop_scraping, current_url, all_links,
                   product_links, idx, scraped_data, histVars>>

\* scrape_site: self.stop_scraping = False, adapter construction.
ScrapeSiteReset ==
    /\ pc = "reset"
    /\ stop_scraping' = FALSE
    /\ pc' = "begin"
    /\ UNCHANGED <<auxVars, guiVars, rateVars, proxyVars, confVars, current_url, all_links, product_links, idx,
                   scraped_data, result, histVars>>

LoopEntry == IF site_name = Books THEN "page_check" ELSE "q_check"

\* scrape (either adapter): locals, scraped_data = [], get_start_url.  With
\* a category filter find_category_url / find_tag_url requests the site's
\* base URL, which is the URL of listing page 1.
ScrapeBegin ==
    /\ pc = "begin"
    /\ scraped_data' = <<>>
    /\ all_links' = <<>>
    /\ IF category_filter
         THEN /\ MakeRequest("front", <<1, 0>>)
              /\ pc' = "cat_req"
              /\ current_url' = current_url
         ELSE /\ NoRequest
              /\ pc' = "start_cb"
              /\ current_url' = 1
    /\ UNCHANGED <<auxVars, guiVars, rateVars, proxyVars, confVars, stop_scraping, product_links, idx, result,
                   failedItems, failedPages, dataAtStop, pcAtStop, cbRaised>>

\* find_category_url / find_tag_url: c = the matching category's listing
\* page, 0 = no match or the front-page request failed (base URL is used).
FindCategoryDone(c) ==
    /\ pc = "cat_req"
    /\ c \in 0..np
    /\ current_url' = IF c = 0 THEN 1 ELSE c
    /\ pc' = "start_cb"
    /\ UNCHANGED <<auxVars, guiVars, rateVars, proxyVars, confVars, stop_scraping, all_links, product_links, idx,
                   scraped_data, result, histVars>>

\* What a call of the caller's progress_callback can do.
CbOutcomes == {"ok", "raise"}

\* A progress_callback call that raised, at call site `site`; `at` is the
\* position in product_links for the item loop's call, the listing page for
\* the flat adapter's page loop, 0 otherwise.
CallbackRaised(site, at) ==
    /\ Cardinality(cbRaised) < MaxCbRaise
    /\ cbRaised' = cbRaised \cup {<<site, at>>}

\* progress_callback(0, max_products, "Getting ...") before the page loop
\* (both adapters); an exception leaves scrape() through its outer except,
\* which raises again.
StartCallback(cb) ==
    /\ pc = "start_cb"
    /\ IF cb = "ok"
         THEN pc' = LoopEntry /\ result' = result /\ UNCHANGED cbRaised
         ELSE /\ CallbackRaised("start", 0)
              /\ pc' = "done" /\ result' = Raised
    /\ UNCHANGED <<auxVars, guiVars, rateVars, proxyVars, confVars, stop_scraping, current_url, all_links,
                   product_links, idx, scraped_data, reqLog, stopReqs,
                   waitCalls, failedItems, failedPages, dataAtStop,
                   pcAtStop>>

\* ------------------------------------- BaseScraper.get_all_product_links
\* (variant) the loop head does not test the quota
PageCheckNoQuota ==
    /\ pc = "page_check"
    /\ pc' = IF current_url # 0 /\ ~StopFlag
               THEN "links_call" ELSE "links_done"
    /\ NoRequest
    /\ UNCHANGED <<auxVars, guiVars, rateVars, proxyVars, confVars, stop_scraping, current_url, all_links,
                   product_links, idx, scraped_data, result, failedItems,
                   failedPages, dataAtStop, pcAtStop, cbRaised>>

\* Loop head: the while condition and the stop poll.
PageCheck ==
    /\ pc = "page_check"
    /\ pc' = IF Len(all_links) < max_products /\ current_url # 0
                  /\ ~StopFlag
               THEN "links_call" ELSE "links_done"
    /\ NoRequest
    /\ UNCHANGED <<auxVars, guiVars, rateVars, proxyVars, confVars, stop_scraping, current_url, all_links,
                   product_links, idx, scraped_data, result, failedItems,
                   failedPages, dataAtStop, pcAtStop, cbRaised>>

\* get_product_links(current_url, ...): its request for the listing page
\* starts, some time after the poll.
LinksRequest ==
    /\ pc = "links_call"
    /\ MakeRequest("links", <<current_url, 0>>)
    /\ pc' = "links_req"
    /\ UNCHANGED <<auxVars, guiVars, rateVars, proxyVars, confVars, stop_scraping, current_url, all_links,
                   product_links, idx, scraped_data, result, failedItems,
                   failedPages, dataAtStop, pcAtStop, cbRaised>>

\* (variant) a failing listing page discards the links collected so far
LinksDoneAbort(ok) ==
    /\ pc = "links_req"
    /\ LET page_links == IF ok
                           THEN PageLinks(current_url,
                                          max_products - Len(all_links))
                           ELSE <<>>
       IN  IF page_links = <<>>
             THEN /\ NoRequest
                  /\ all_links' = IF ok THEN all_links ELSE <<>>
                  /\ pc' = "links_done"
             ELSE /\ all_links' = all_links \o page_links
                  /\ MakeRequest("next", <<current_url, 0>>)
                  /\ pc' = "next_req"
    /\ failedPages' = IF ok THEN failedPages
                            ELSE failedPages \cup {current_url}
    /\ UNCHANGED <<auxVars, guiVars, rateVars, proxyVars, confVars, stop_scraping, current_url,
                   product_links, idx, scraped_data, result, failedItems,
                   dataAtStop, pcAtStop, cbRaised>>

\* (variant) a listing page that fails before any link was collected makes
\* scrape() raise
LinksDoneRaise(ok) ==
    /\ pc = "links_req"
    /\ LET page_links == IF ok
                           THEN PageLinks(current_url,
                                          max_products - Len(all_links))
                           ELSE <<>>
       IN  IF page_links = <<>>
             THEN /\ NoRequest
                  /\ all_links' = all_links
                  /\ IF ~ok /\ all_links = <<>>
                       THEN pc' = "done" /\ result' = Raised
                       ELSE pc' = "links_done" /\ result' = result
             ELSE /\ all_links' = all_links \o page_links
                  /\ MakeRequest("next", <<current_url, 0>>)
                  /\ pc' = "next_req"
                  /\ result' = result
    /\ failedPages' = IF ok THEN failedPages
                            ELSE failedPages \cup {current_url}
    /\ UNCHANGED <<auxVars, guiVars, rateVars, proxyVars, confVars, stop_scraping, current_url,
                   product_links, idx, scraped_data, failedItems,
                   dataAtStop, pcAtStop, cbRaised>>

\* get_product_links returns (ok: page fetched and parsed; otherwise the
\* adapter caught the failure and returned []).  An empty list breaks the
\* loop; otherwise the links are added and get_next_page_url requests the
\* same listing page again.
LinksDone(ok) ==
    /\ pc = "links_req"
    /\ LET page_links == IF ok
                           THEN PageLinks(current_url,
                                          max_products - Len(all_links))
                           ELSE <<>>
       IN  IF page_links = <<>>
             THEN /\ NoRequest
                  /\ all_links' = all_links
                  /\ pc' = "links_done"
             ELSE /\ all_links' = all_links \o page_links
                  /\ MakeRequest("next", <<current_url, 0>>)
                  /\ pc' = "next_req"
    /\ failedPages' = IF ok THEN failedPages
                            ELSE failedPages \cup {current_url}
    /\ UNCHANGED <<auxVars, guiVars, rateVars, proxyVars, confVars, stop_scraping, current_url, product_links, idx,
                   scraped_data, result, failedItems, dataAtStop, pcAtStop, cbRaised>>

\* get_next_page_url returns: the pager's next link, or None when the page
\* has none or the request failed.
NextDone(ok) ==
    /\ pc = "next_req"
    /\ current_url' = IF ok THEN NextLink(current_url) ELSE 0
    /\ pc' = "page_sleep"
    /\ UNCHANGED <<auxVars, guiVars, rateVars, proxyVars, confVars, stop_scraping, all_links, product_links, idx,
                   scraped_data, result, histVars>>

\* time.sleep(1) between listing pages.
PageSleep ==
    /\ pc = "page_sleep"
    /\ pc' = "page_check"
    /\ UNCHANGED <<auxVars, guiVars, rateVars, proxyVars, confVars, stop_scraping, current_url, all_links,
                   product_links, idx, scraped_data, result, histVars>>

\* (variant) an empty link list is reported as an error
LinksReturnRaise ==
    /\ pc = "links_done"
    /\ product_links' = CapLinks(all_links, max_products)
    /\ IF product_links' = <<>>
         THEN pc' = "done" /\ result' = Raised /\ idx' = idx
         ELSE pc' = "item_check" /\ result' = result /\ idx' = 1
    /\ UNCHANGED <<auxVars, guiVars, rateVars, proxyVars, confVars, stop_scraping, current_url, all_links,
                   scraped_data, histVars>>

\* return all_links[:max_products]; scrape: empty -> empty DataFrame.
LinksReturn ==
    /\ pc = "links_done"
    /\ product_links' = CapLinks(all_links, max_products)
    /\ IF product_links' = <<>>
         THEN pc' = "done" /\ result' = Returned(<<>>) /\ idx' = idx
         ELSE pc' = "item_check" /\ result' = result /\ idx' = 1
    /\ UNCHANGED <<auxVars, guiVars, rateVars, proxyVars, confVars, stop_scraping, current_url, all_links,
                   scraped_data, histVars>>

\* ------------------------------------------- BaseScraper.scrape: item loop
\* for i, product_url in enumerate(product_links): the stop poll.
ItemCheck ==
    /\ pc = "item_check"
    /\ pc' = IF idx > Len(product_links) \/ StopFlag THEN "finish"
                                                       ELSE "item_cb"
    /\ NoRequest
    /\ UNCHANGED <<auxVars, guiVars, rateVars, proxyVars, confVars, stop_scraping, current_url, all_links,
                   product_links, idx, scraped_data, result, failedItems,
                   failedPages, dataAtStop, pcAtStop, cbRaised>>

\* Inside the try: progress_callback(i, ...), then scrape_product starts
\* its request.  A callback that raises is caught by the loop's except,
\* which continues with the next link: no request, no record, no sleep.
ItemRequest(cb) ==
    /\ pc = "item_cb"
    /\ IF cb = "ok"
         THEN /\ MakeRequest("item", product_links[idx])
              /\ pc' = "item_req" /\ idx' = idx
              /\ UNCHANGED cbRaised
         ELSE /\ CallbackRaised("item", idx)
              /\ NoRequest
              /\ pc' = "item_check" /\ idx' = idx + 1
    /\ UNCHANGED <<auxVars, guiVars, rateVars, proxyVars, confVars, stop_scraping, current_url, all_links,
                   product_links, scraped_data, result, failedItems,
                   failedPages, dataAtStop, pcAtStop>>

\* (variant) the first item that fails ends the item loop
ItemDoneAbort(outcome) ==
    /\ pc = "item_req"
    /\ LET rec == Record(product_links[idx], Len(reqLog))
       IN  /\ scraped_data' = AppendRecord(scraped_data, outcome, rec)
           /\ failedItems' = IF outcome = "ok" THEN failedItems
                             ELSE failedItems \cup {rec}
    /\ IF outcome # "ok"
         THEN pc' = "finish" /\ idx' = idx
         ELSE IF delay > 0
                THEN pc' = "item_sleep" /\ idx' = idx
                ELSE pc' = "item_check" /\ idx' = idx + 1
    /\ UNCHANGED <<auxVars, guiVars, rateVars, proxyVars, confVars, stop_scraping, current_url, all_links,
                   product_links, result, reqLog, stopReqs, waitCalls,
                   failedPages, dataAtStop, pcAtStop, cbRaised>>

\* scrape_product returns a record ("ok"), returns None ("none": the adapter
\* caught a fetch or parse failure) or raises ("raise": caught by the loop's
\* except, which continues).  The delay sleep follows unless it raised.
ItemDone(outcome) ==
    /\ pc = "item_req"
    /\ LET rec == Record(product_links[idx], Len(reqLog))
       IN  /\ scraped_data' = AppendRecord(scraped_data, outcome, rec)
           /\ failedItems' = IF outcome = "ok" THEN failedItems
                             ELSE failedItems \cup {rec}
    /\ IF outcome # "raise" /\ delay > 0
         THEN pc' = "item_sleep" /\ idx' = idx
         ELSE pc' = "item_check" /\ idx' = idx + 1
    /\ UNCHANGED <<auxVars, guiVars, rateVars, proxyVars, confVars, stop_scraping, current_url, all_links,
                   product_links, result, reqLog, stopReqs, waitCalls,
                   failedPages, dataAtStop, pcAtStop, cbRaised>>

\* time.sleep(delay)
ItemSleep ==
    /\ pc = "item_sleep"
    /\ pc' = "item_check"
    /\ idx' = idx + 1
    /\ UNCHANGED <<auxVars, guiVars, rateVars, proxyVars, confVars, stop_scraping, current_url, all_links,
                   product_links, scraped_data, result, histVars>>

\* progress_callback(..., "Scraping completed"); df = pd.DataFrame(
\* self.scraped_data); return df  (both adapters).  A callback that raises
\* leaves scrape() through its outer except, which raises again.
Finish(cb) ==
    /\ pc = "finish"
    /\ IF cb = "ok"
         THEN result' = Returned(scraped_data) /\ UNCHANGED cbRaised
         ELSE CallbackRaised("end", 0) /\ result' = Raised
    /\ pc' = "done"
    /\ UNCHANGED <<auxVars, guiVars, rateVars, proxyVars, confVars, stop_scraping, current_url, all_links,
                   product_links, idx, scraped_data, reqLog, stopReqs,
                   waitCalls, failedItems, failedPages, dataAtStop,
                   pcAtStop>>

\* ------------------------------------------- QuotesToScrapeScraper.scrape
\* Loop head: the while condition and the stop poll.
QuotesCheck ==
    /\ pc = "q_check"
    /\ pc' = IF Len(scraped_data) < max_products /\ current_url # 0
                  /\ ~StopFlag
               THEN "q_call" ELSE "finish"
    /\ NoRequest
    /\ UNCHANGED <<auxVars, guiVars, rateVars, proxyVars, confVars, stop_scraping, current_url, all_links,
                   product_links, idx, scraped_data, result, failedItems,
                   failedPages, dataAtStop, pcAtStop, cbRaised>>

\* scrape_quotes_from_page(current_url): its request starts, some time
\* after the poll.
QuotesRequest ==
    /\ pc = "q_call"
    /\ MakeRequest("quotes", <<current_url, 0>>)
    /\ pc' = "q_req"
    /\ UNCHANGED <<auxVars, guiVars, rateVars, proxyVars, confVars, stop_scraping, current_url, all_links,
                   product_links, idx, scraped_data, result, failedItems,
                   failedPages, dataAtStop, pcAtStop, cbRaised>>

\* scrape_quotes_from_page returns (ok: the page's quotes except the one
\* whose extraction failed; otherwise []) and the quotes are appended up to
\* the quota.
QuotesDone(ok, bad) ==
    /\ pc = "q_req"
    /\ bad \in 0..ipp[current_url]
    /\ ~ok => bad = 0
    /\ LET quotes == IF ok THEN PageQuotes(current_url, bad, Len(reqLog))
                          ELSE <<>>
       IN  scraped_data' = AppendQuotes(scraped_data, quotes, max_products)
    /\ failedItems' = IF bad = 0 THEN failedItems
                      ELSE failedItems \cup {<<current_url, bad, Len(reqLog)>>}
    /\ failedPages' = IF ok THEN failedPages
                            ELSE failedPages \cup {current_url}
    /\ NoRequest
    /\ pc' = "q_cb"
    /\ UNCHANGED <<auxVars, guiVars, rateVars, proxyVars, confVars, stop_scraping, current_url, all_links,
                   product_links, idx, result, dataAtStop, pcAtStop, cbRaised>>

\* progress_callback(len(scraped_data), ...), then get_next_page_url
\* requests the same page again.  A callback that raises is caught by the
\* loop's except, which breaks out of the page loop.
QuotesNextRequest(cb) ==
    /\ pc = "q_cb"
    /\ IF cb = "ok"
         THEN /\ MakeRequest("next", <<current_url, 0>>)
              /\ pc' = "q_next_req"
              /\ UNCHANGED cbRaised
         ELSE /\ CallbackRaised("page", current_url)
              /\ NoRequest
              /\ pc' = "finish"
    /\ UNCHANGED <<auxVars, guiVars, rateVars, proxyVars, confVars, stop_scraping, current_url, all_links,
                   product_links, idx, scraped_data, result, failedItems,
                   failedPages, dataAtStop, pcAtStop>>

\* get_next_page_url returns; then time.sleep(delay) if delay > 0.
QuotesNextDone(ok) ==
    /\ pc = "q_next_req"
    /\ current_url' = IF ok THEN NextLink(current_url) ELSE 0
    /\ pc' = IF delay > 0 THEN "q_sleep" ELSE "q_check"
    /\ UNCHANGED <<auxVars, guiVars, rateVars, proxyVars, confVars, stop_scraping, all_links, product_links, idx,
                   scraped_data, result, histVars>>

QuotesSleep ==
    /\ pc = "q_sleep"
    /\ pc' = "q_check"
    /\ UNCHANGED <<auxVars, guiVars, rateVars, proxyVars, confVars, stop_scraping, current_url, all_links,
                   product_links, idx, scraped_data, result, histVars>>

ItemOutcomes == {"ok", "none", "raise"}

NextScrape ==
    \/ Stop
    \/ ScrapeSiteEnter
    \/ ScrapeSiteReset
    \/ ScrapeBegin
    \/ \E c \in 0..MaxPages : FindCategoryDone(c)
    \/ \E cb \in CbOutcomes : StartCallback(cb)
    \/ PageCheck
    \/ LinksRequest
    \/ \E ok \in BOOLEAN : LinksDone(ok)
    \/ \E ok \in BOOLEAN : NextDone(ok)
    \/ PageSleep
    \/ LinksReturn
    \/ ItemCheck
    \/ \E cb \in CbOutcomes : ItemRequest(cb)
    \/ \E o \in ItemOutcomes : ItemDone(o)
    \/ ItemSleep
    \/ \E cb \in CbOutcomes : Finish(cb)
    \/ QuotesCheck
    \/ QuotesRequest
    \/ \E ok \in BOOLEAN, bad \in 0..MaxPerPage : QuotesDone(ok, bad)
    \/ \E cb \in CbOutcomes : QuotesNextRequest(cb)
    \/ \E ok \in BOOLEAN : QuotesNextDone(ok)
    \/ QuotesSleep

\* ============================================================ RateLimiter
Threads == 1..NThreads
\* time.time() when the limiter is first used: far from last_request_time = 0
Epoch == 2 * Window
\* idle time that may pass before a call, and by how much a sleep may overrun
Gaps == {0, 1, Window \div 2, Window}
Overrun == {0, 1}

\* The pruning loop of wait(): heads older than the window are dropped; the
\* first head still inside the window is put back with Queue.put, that is
\* at the tail, and the loop stops.
RECURSIVE Prune(_, _)
Prune(q, cur) ==
    IF q = <<>> THEN <<>>
    ELSE IF cur - Head(q) < Window THEN Append(Tail(q), Head(q))
    ELSE Prune(Tail(q), cur)

\* (variant) the cap never makes the caller sleep
CapSleepNone(q, cur, rpm) == 0

\* if qsize() >= requests_per_minute: sleep_time = 60 - (current_time -
\* queue[0]); slept only if positive.  0 = no sleep.
CapSleepTime(q, cur, rpm) ==
    IF Len(q) >= rpm THEN Max(Window - (cur - q[1]), 0) ELSE 0

\* (variant) the jitter gap is measured but never slept
JitterSleepNone(d, cur, last) == 0

\* time_since_last = current_time - last_request_time; if it is below the
\* sampled delay the caller sleeps the difference.  0 = no sleep.
JitterSleepTime(d, cur, last) ==
    IF cur - last < d THEN d - (cur - last) ELSE 0

\* The timestamps recorded within the window that ends at time t.
InWindow(h, t) == SelectSeq(h, LAMBDA x : t - x < Window)

IdleRate ==
    /\ rl_rpm = 1 /\ rl_now = 0 /\ rl_last = 0 /\ rl_queue = <<>>
    /\ rl_hist = <<>> /\ rl_pc = <<>> /\ rl_lock = 0
    /\ rl_current_time = <<>> /\ rl_wake = <<>> /\ rl_calls = 0

\* RateLimiter.__init__
InitRate ==
    /\ rl_rpm \in 1..MaxRPM
    /\ rl_now = Epoch
    /\ rl_last = 0
    /\ rl_queue = <<>>
    /\ rl_hist = <<>>
    /\ rl_pc = [t \in Threads |-> "idle"]
    /\ rl_lock = 0
    /\ rl_current_time = [t \in Threads |-> 0]
    /\ rl_wake = [t \in Threads |-> 0]
    /\ rl_calls = 0

\* A thread calls wait() and gets the lock.  with self.lock: current_time =
\* time.time(); the pruning loop; the cap test and its sleep_time.  `gap` is
\* the idle time that passed while the lock was free.
WaitEnter(t, gap) ==
    /\ rl_pc[t] = "idle"
    /\ rl_calls < MaxCalls
    /\ rl_calls' = rl_calls + 1
    /\ rl_lock = 0
    /\ rl_lock' = t
    /\ rl_now' = rl_now + gap
    /\ rl_current_time' = [rl_current_time EXCEPT ![t] = rl_now']
    /\ rl_queue' = Prune(rl_queue, rl_now')
    /\ LET sleep_time == CapSleepTime(rl_queue', rl_now', rl_rpm)
       IN  IF sleep_time > 0
             THEN /\ rl_pc' = [rl_pc EXCEPT ![t] = "cap_sleep"]
                  /\ rl_wake' = [rl_wake EXCEPT ![t] = rl_now' + sleep_time]
             ELSE /\ rl_pc' = [rl_pc EXCEPT ![t] = "jitter"]
                  /\ rl_wake' = rl_wake
    /\ UNCHANGED <<auxVars, guiVars, scrapeVars, proxyVars, rl_rpm, rl_last, rl_hist>>

\* time.sleep(sleep_time) of the cap returns (possibly late).
CapSleep(t, over) ==
    /\ rl_pc[t] = "cap_sleep"
    /\ rl_now' = rl_wake[t] + over
    /\ rl_pc' = [rl_pc EXCEPT ![t] = "jitter"]
    /\ UNCHANGED <<auxVars, guiVars, scrapeVars, proxyVars, rl_calls, rl_rpm, rl_last, rl_queue, rl_hist,
                   rl_lock, rl_current_time, rl_wake>>

\* delay = random.uniform(min_delay, max_delay) and the test against
\* time_since_last, which uses the current_time read on entry.
Jitter(t, d) ==
    /\ rl_pc[t] = "jitter"
    /\ LET s == JitterSleepTime(d, rl_current_time[t], rl_last)
       IN  IF s > 0
             THEN /\ rl_pc' = [rl_pc EXCEPT ![t] = "jit_sleep"]
                  /\ rl_wake' = [rl_wake EXCEPT ![t] = rl_now + s]
             ELSE /\ rl_pc' = [rl_pc EXCEPT ![t] = "record"]
                  /\ rl_wake' = rl_wake
    /\ UNCHANGED <<auxVars, guiVars, scrapeVars, proxyVars, rl_calls, rl_rpm, rl_now, rl_last, rl_queue,
                   rl_hist, rl_lock, rl_current_time>>

\* time.sleep(delay - time_since_last) returns (possibly late).
JitterSleep(t, over) ==
    /\ rl_pc[t] = "jit_sleep"
    /\ rl_now' = rl_wake[t] + over
    /\ rl_pc' = [rl_pc EXCEPT ![t] = "record"]
    /\ UNCHANGED <<auxVars, guiVars, scrapeVars, proxyVars, rl_calls, rl_rpm, rl_last, rl_queue, rl_hist,
                   rl_lock, rl_current_time, rl_wake>>

\* last_request_time = time.time(); request_times.put(it); lock released.
WaitRecord(t) ==
    /\ rl_pc[t] = "record"
    /\ rl_last' = rl_now
    /\ rl_queue' = Append(rl_queue, rl_now)
    /\ rl_hist' = Append(InWindow(rl_hist, rl_now), rl_now)
    /\ rl_lock' = 0
    /\ rl_pc' = [rl_pc EXCEPT ![t] = "idle"]
    /\ rl_current_time' = [rl_current_time EXCEPT ![t] = 0]
    /\ rl_wake' = [rl_wake EXCEPT ![t] = 0]
    /\ UNCHANGED <<auxVars, guiVars, scrapeVars, proxyVars, rl_calls, rl_rpm, rl_now>>

NextRate ==
    \/ \E t \in Threads, gap \in Gaps : WaitEnter(t, gap)
    \/ \E t \in Threads, over \in Overrun : CapSleep(t, over)
    \/ \E t \in Threads, d \in MinDelay..MaxDelay : Jitter(t, d)
    \/ \E t \in Threads, over \in Overrun : JitterSleep(t, over)
    \/ \E t \in Threads : WaitRecord(t)

\* =========================================================== ProxyRotator
\* proxy_list holds the proxies 1..px_n in list order; px_index is the
\* 0-based current_proxy_index.
Proxies == 1..px_n

\* (variant) the failed set is not consulted
UsableAlways(p, failed) == TRUE

\* if proxy not in self.failed_proxies
Usable(p, failed) == p \notin failed

\* The for loop of get_proxy from index i with k iterations left: the number
\* of iterations it runs until it returns (0 = the loop ran out).
RECURSIVE ScanSteps(_, _, _, _)
ScanSteps(i, k, n, failed) ==
    IF k = 0 THEN 0
    ELSE IF Usable(i + 1, failed) THEN 1
    ELSE LET rest == ScanSteps((i + 1) % n, k - 1, n, failed)
         IN  IF rest = 0 THEN 0 ELSE rest + 1

IdleProxy ==
    /\ px_n = 0 /\ px_index = 0 /\ px_failed = {} /\ px_lock = 0
    /\ px_pc = <<>> /\ px_scan = <<>> /\ px_depth = <<>> /\ px_ret = <<>>
    /\ px_retFailed = <<>> /\ px_calls = 0 /\ px_hist = <<>>

\* ProxyRotator.__init__
InitProxy ==
    /\ px_n \in 0..MaxProxies
    /\ px_index = 0
    /\ px_failed = {}
    /\ px_lock = 0
    /\ px_pc = [t \in Threads |-> "idle"]
    /\ px_scan = [t \in Threads |-> 0]
    /\ px_depth = [t \in Threads |-> 0]
    /\ px_ret = [t \in Threads |-> 0]
    /\ px_retFailed = [t \in Threads |-> {}]
    /\ px_calls = 0
    /\ px_hist = <<>>

\* get_proxy(): if not self.proxy_list: return None; else go for the lock.
GetProxyCall(t) ==
    /\ px_pc[t] = "idle"
    /\ px_calls < MaxGets
    /\ px_calls' = px_calls + 1
    /\ px_ret' = [px_ret EXCEPT ![t] = 0]
    /\ px_retFailed' = [px_retFailed EXCEPT ![t] = {}]
    /\ px_pc' = [px_pc EXCEPT ![t] = IF px_n = 0 THEN "idle" ELSE "acquire"]
    /\ UNCHANGED <<auxVars, guiVars, scrapeVars, rateVars, px_n, px_index, px_failed, px_lock,
                   px_scan, px_depth, px_hist>>

\* with self.lock: threading.Lock is not reentrant, so the lock must be
\* free, also for the thread that already holds it.
GetProxyAcquire(t) ==
    /\ px_pc[t] = "acquire"
    /\ px_lock = 0
    /\ px_lock' = t
    /\ px_pc' = [px_pc EXCEPT ![t] = "scan"]
    /\ UNCHANGED <<auxVars, guiVars, scrapeVars, rateVars, px_n, px_index, px_failed, px_scan,
                   px_depth, px_ret, px_retFailed, px_calls, px_hist>>

\* (variant) the index is advanced only past the proxies that were skipped,
\* not past the one that is returned
GetProxyScanNoAdvance(t) ==
    /\ px_pc[t] = "scan"
    /\ LET k == ScanSteps(px_index, px_n, px_n, px_failed)
       IN  IF k > 0
             THEN /\ px_ret' = [px_ret EXCEPT
                                  ![t] = ((px_index + k - 1) % px_n) + 1]
                  /\ px_retFailed' = [px_retFailed EXCEPT ![t] = px_failed]
                  /\ px_hist' = Append(px_hist, <<px_ret'[t], px_failed>>)
                  /\ px_index' = (px_index + k - 1) % px_n
                  /\ px_scan' = [px_scan EXCEPT ![t] = k]
                  /\ px_lock' = 0
                  /\ px_depth' = [px_depth EXCEPT ![t] = 0]
                  /\ px_pc' = [px_pc EXCEPT ![t] = "idle"]
             ELSE /\ px_index' = (px_index + px_n) % px_n
                  /\ px_scan' = [px_scan EXCEPT ![t] = px_n]
                  /\ px_pc' = [px_pc EXCEPT ![t] = "all_failed"]
                  /\ UNCHANGED <<px_ret, px_retFailed, px_lock, px_depth,
                                 px_hist>>
    /\ UNCHANGED <<auxVars, guiVars, scrapeVars, rateVars, px_n, px_failed, px_calls>>

\* for _ in range(len(proxy_list)): take the proxy at the index, advance the
\* index, return the proxy if it is not failed.  Runs under the lock.
GetProxyScan(t) ==
    /\ px_pc[t] = "scan"
    /\ LET k == ScanSteps(px_index, px_n, px_n, px_failed)
       IN  IF k > 0
             THEN /\ px_ret' = [px_ret EXCEPT
                                  ![t] = ((px_index + k - 1) % px_n) + 1]
                  /\ px_retFailed' = [px_retFailed EXCEPT ![t] = px_failed]
                  /\ px_hist' = Append(px_hist, <<px_ret'[t], px_failed>>)
                  /\ px_index' = (px_index + k) % px_n
                  /\ px_scan' = [px_scan EXCEPT ![t] = k]
                  /\ px_lock' = 0
                  /\ px_depth' = [px_depth EXCEPT ![t] = 0]
                  /\ px_pc' = [px_pc EXCEPT ![t] = "idle"]
             ELSE /\ px_index' = (px_index + px_n) % px_n
                  /\ px_scan' = [px_scan EXCEPT ![t] = px_n]
                  /\ px_pc' = [px_pc EXCEPT ![t] = "all_failed"]
                  /\ UNCHANGED <<px_ret, px_retFailed, px_lock, px_depth,
                                 px_hist>>
    /\ UNCHANGED <<auxVars, guiVars, scrapeVars, rateVars, px_n, px_failed, px_calls>>

\* self.failed_proxies.clear(); return self.get_proxy()  -- the recursive
\* call is made inside the with block, the lock still held.
GetProxyReset(t) ==
    /\ px_pc[t] = "all_failed"
    /\ px_failed' = {}
    /\ px_depth' = [px_depth EXCEPT ![t] = px_depth[t] + 1]
    /\ px_pc' = [px_pc EXCEPT ![t] = "acquire"]
    /\ UNCHANGED <<auxVars, guiVars, scrapeVars, rateVars, px_n, px_index, px_lock, px_scan,
                   px_ret, px_retFailed, px_calls, px_hist>>

\* mark_proxy_failed(proxy) for a proxy dict of the list: with self.lock:
\* failed_proxies.add(url).
MarkProxyFailed(p) ==
    /\ p \in Proxies
    /\ p \notin px_failed
    /\ px_lock = 0
    /\ px_failed' = px_failed \cup {p}
    /\ UNCHANGED <<auxVars, guiVars, scrapeVars, rateVars, px_n, px_index, px_lock, px_pc,
                   px_scan, px_depth, px_ret, px_retFailed, px_calls, px_hist>>

NextProxy ==
    \/ \E t \in Threads : GetProxyCall(t)
    \/ \E t \in Threads : GetProxyAcquire(t)
    \/ \E t \in Threads : GetProxyScan(t)
    \/ \E t \in Threads : GetProxyReset(t)
    \/ \E p \in 1..MaxProxies : MarkProxyFailed(p)


\* ============================================================= MainWindow
\* The window's Start and Stop buttons, its close handler, the worker
\* threads it starts, and the callbacks the workers post to the UI thread.
\* A worker's scrape_site call is followed through its entry (the stop flag
\* reset), each of its HTTP requests, each call of the progress callback
\* (MainWindow.update_scraping_progress) and its return.  The progress
\* updates the callback posts only touch the progress bar and the status
\* line and are not kept in ui_queue.  The site a worker scrapes has one
\* listing page without next link, which holds one item when it answers.
Workers == 1..MaxWorkers
\* What the user has in the site box and the "Max Products", "Delay" and
\* "Category" fields when the values parse, as <<site, max_products, delay,
\* category given>>: usual values, a zero quota with a category, a negative
\* delay, no site selected.
ParamInputs == {<<Books, 1, 1, FALSE>>, <<Quotes, 0, 1, TRUE>>,
                <<Quotes, 1, -1, FALSE>>, <<"", 1, 1, FALSE>>}
NoConf == [site_name |-> "", max_products |-> 0, delay |-> 0,
           category_filter |-> FALSE]

InitGui ==
    /\ start_button = TRUE
    /\ stop_button = FALSE
    /\ scraping_active = FALSE
    /\ w_pc = [w \in Workers |-> "none"]
    /\ w_scraped = [w \in Workers |-> FALSE]
    /\ w_conf = [w \in Workers |-> NoConf]
    /\ w_req = [w \in Workers |-> 0]
    /\ w_res = [w \in Workers |-> "none"]
    /\ ui_queue = <<>>
    /\ w_out = [w \in Workers |-> <<>>]
    /\ w_stopped = {}
    /\ root_destroyed = FALSE
    /\ exit_dialog = FALSE

\* Positions of a worker inside scraper.scrape: about to make a request ...
RequestPcs == {"front", "listing", "pager", "item"}
\* ... about to call the progress callback (update_scraping_progress) ...
CallbackPcs == {"start_cb", "item_cb", "page_cb", "final_cb"}
\* ... inside it, between the scraping_active test and root.after ...
PostPcs == {"start_post", "item_post", "page_post", "final_post"}
\* ... about to return the DataFrame, or to raise.
EndPcs == {"leaving", "raising"}

\* Workers whose thread has been started and whose scrape_site call has not
\* returned or raised yet.
Executing ==
    {w \in Workers :
        w_pc[w] \in {"started"} \cup RequestPcs \cup CallbackPcs \cup PostPcs
                      \cup EndPcs}

\* The thread object start_scraping creates: the first one not yet used.
NewWorker == CHOOSE w \in Workers :
                 w_pc[w] = "none" /\ \A v \in 1..(w - 1) : w_pc[v] # "none"

\* start_scraping's try block: int(...) and float(...) did not raise.
ValidParams(numeric, mp, dl) == numeric

\* MainWindow.start_scraping (the Start button's command; a disabled button
\* does not run it, nor does the window take clicks while the modal
\* "Confirm Exit" box is open).  site: the site box's text, "" when nothing
\* is selected; numeric: both fields parse.  A missing site or a field that
\* does not parse only raises a dialog.
StartScraping(site, numeric, mp, dl, cf) ==
    /\ ~root_destroyed
    /\ ~exit_dialog
    /\ start_button
    /\ \E w \in Workers : w_pc[w] = "none"
    /\ IF site = "" \/ ~ValidParams(numeric, mp, dl)
         THEN UNCHANGED <<start_button, stop_button, scraping_active, w_pc,
                         w_conf>>
         ELSE /\ start_button' = FALSE
              /\ stop_button' = TRUE
              /\ w_conf' = [w_conf EXCEPT ![NewWorker] =
                              [site_name |-> site, max_products |-> mp,
                               delay |-> dl, category_filter |-> cf]]
              /\ scraping_active' = TRUE
              /\ w_pc' = [w_pc EXCEPT ![NewWorker] = "started"]
    /\ UNCHANGED <<w_scraped, w_req, w_res, ui_queue, w_out, w_stopped,
                   scrapeVars, rateVars, proxyVars, auxVars,
                   root_destroyed, exit_dialog>>

\* MainWindow.stop_scraping (the Stop button's command).
GuiStopScraping ==
    /\ ~root_destroyed
    /\ ~exit_dialog
    /\ stop_button
    /\ scraping_active' = FALSE
    /\ start_button' = TRUE
    /\ stop_button' = FALSE
    /\ w_stopped' = w_stopped \cup Executing
    /\ UNCHANGED <<w_pc, w_scraped, w_conf, w_req, w_res, ui_queue, w_out,
                   scrapeVars, rateVars, proxyVars, auxVars,
                   root_destroyed, exit_dialog>>

\* _scraping_worker calls scrape_site: registry lookup (the combobox only
\* offers registered sites), then self.stop_scraping = False; scrape starts
\* with scraped_data = [] and get_start_url, which requests the front page
\* when a category (tag) filter is given.
WorkerEnter(w) ==
    /\ w_pc[w] = "started"
    /\ stop_scraping' = FALSE
    /\ w_pc' = [w_pc EXCEPT ![w] = IF w_conf[w].category_filter
                                     THEN "front" ELSE "start_cb"]
    /\ UNCHANGED <<start_button, stop_button, scraping_active, w_scraped,
                   w_conf, w_req, w_res, ui_queue, w_out, w_stopped,
                   confVars, runLocals, histVars, rateVars, proxyVars, auxVars,
                   root_destroyed, exit_dialog>>

\* Where a scrape call goes on after a request.  The adapters catch what a
\* request raises.  Books: a listing page that gives no link ends
\* get_all_product_links and scrape returns an empty DataFrame at once;
\* otherwise the same page is requested again by get_next_page_url and the
\* item loop follows.  Quotes: the listing page is followed by the progress
\* callback and get_next_page_url whether or not it gave quotes.
AfterRequest(conf, at, ok) ==
    IF at = "front" THEN "start_cb"
    ELSE IF at = "listing"
      THEN IF conf.site_name = Books
             THEN (IF ok THEN "pager" ELSE "leaving")
             ELSE "page_cb"
    ELSE IF at = "pager"
      THEN IF conf.site_name = Books THEN "item_cb" ELSE "final_cb"
    ELSE "final_cb"

\* One HTTP request of worker w's scrape call (BaseScraper.make_request:
\* session.get); ok: the response came and gave what was looked for.
WorkerRequest(w, ok) ==
    /\ w_pc[w] \in RequestPcs
    /\ w_req' = [w_req EXCEPT ![w] = @ + 1]
    /\ w_pc' = [w_pc EXCEPT ![w] = AfterRequest(w_conf[w], @, ok)]
    /\ w_scraped' =
         [w_scraped EXCEPT ![w] =
            IF \/ w_pc[w] = "item"
               \/ w_pc[w] = "listing" /\ w_conf[w].site_name = Quotes
              THEN ok ELSE @]
    /\ UNCHANGED <<start_button, stop_button, scraping_active,
                   w_conf, w_res, ui_queue, w_out, w_stopped,
                   scrapeVars, rateVars, proxyVars, auxVars,
                   root_destroyed, exit_dialog>>

\* The position inside update_scraping_progress for each call site.
PostPc(at) ==
    IF at = "start_cb" THEN "start_post"
    ELSE IF at = "item_cb" THEN "item_post"
    ELSE IF at = "page_cb" THEN "page_post"
    ELSE "final_post"

\* Where a scrape call goes on after a progress callback that returned.
\* After the first one: the page loop while the quota is positive; with a
\* zero quota Books returns an empty DataFrame (no product links) and Quotes
\* goes to its final callback.
AfterCallback(conf, at) ==
    IF at \in {"start_cb", "start_post"}
      THEN IF conf.max_products > 0 THEN "listing"
           ELSE IF conf.site_name = Books THEN "leaving" ELSE "final_cb"
    ELSE IF at \in {"item_cb", "item_post"} THEN "item"
    ELSE IF at \in {"page_cb", "page_post"} THEN "pager"
    ELSE "leaving"

\* Where a scrape call goes on after a progress callback that raised: the
\* item loop's try catches it and the item is skipped, the Quotes page
\* loop's try catches it and breaks, both going to the final callback; the
\* first and the final callback are only inside the outer try, which
\* re-raises.
AfterCallbackRaised(at) ==
    IF at \in {"item_post", "page_post"} THEN "final_cb" ELSE "raising"

\* update_scraping_progress, its test `if self.scraping_active:`; when it
\* fails the callback returns at once.
ProgressCheck(w) ==
    /\ w_pc[w] \in CallbackPcs
    /\ w_pc' = [w_pc EXCEPT ![w] =
                  IF scraping_active THEN PostPc(@)
                                     ELSE AfterCallback(w_conf[w], @)]
    /\ UNCHANGED <<start_button, stop_button, scraping_active, w_scraped,
                   w_conf, w_req, w_res, ui_queue, w_out, w_stopped,
                   scrapeVars, rateVars, proxyVars, auxVars,
                   root_destroyed, exit_dialog>>

\* update_scraping_progress, its root.after(0, self._update_progress_ui, ...)
\* : on a destroyed window the call raises into scrape; otherwise the
\* progress update is posted and the callback returns.
ProgressPost(w) ==
    /\ w_pc[w] \in PostPcs
    /\ w_pc' = [w_pc EXCEPT ![w] =
                  IF root_destroyed THEN AfterCallbackRaised(@)
                                    ELSE AfterCallback(w_conf[w], @)]
    /\ UNCHANGED <<start_button, stop_button, scraping_active, w_scraped,
                   w_conf, w_req, w_res, ui_queue, w_out, w_stopped,
                   scrapeVars, rateVars, proxyVars, auxVars,
                   root_destroyed, exit_dialog>>

\* scrape_site returns to the worker ("data": a non-empty DataFrame;
\* "empty": an empty one) or raises ("raised").
WorkerReturn(w, res) ==
    /\ w_pc[w] \in EndPcs
    /\ res = IF w_pc[w] = "raising" THEN "raised"
             ELSE IF w_scraped[w] THEN "data" ELSE "empty"
    /\ w_res' = [w_res EXCEPT ![w] = res]
    /\ w_pc' = [w_pc EXCEPT ![w] = "returned"]
    /\ UNCHANGED <<start_button, stop_button, scraping_active, w_scraped,
                   w_conf, w_req, ui_queue, w_out, w_stopped, scrapeVars,
                   rateVars, proxyVars, auxVars,
                   root_destroyed, exit_dialog>>

\* (variant) the error callback is posted after the completion callback too
FinalCallbacksBoth(res, w) ==
    IF res = "data" THEN << <<"complete", w>>, <<"error", w>> >>
                    ELSE << <<"error", w>> >>

\* _scraping_worker after the call: root.after(0, on_scraping_complete) for
\* a non-empty result, root.after(0, on_scraping_error) for an empty one or
\* an exception.
FinalCallbacks(res, w) ==
    IF res = "data" THEN << <<"complete", w>> >>
                    ELSE << <<"error", w>> >>

\* On a destroyed window root.after raises: inside the try it is caught by
\* the except branch, whose own root.after raises again and ends the thread
\* with nothing posted.
WorkerPost(w) ==
    /\ w_pc[w] = "returned"
    /\ IF root_destroyed
         THEN /\ ui_queue' = ui_queue
              /\ w_pc' = [w_pc EXCEPT ![w] = "lost"]
         ELSE /\ ui_queue' = ui_queue \o FinalCallbacks(w_res[w], w)
              /\ w_pc' = [w_pc EXCEPT ![w] = "finished"]
    /\ UNCHANGED <<start_button, stop_button, scraping_active, w_scraped,
                   w_conf, w_req, w_res, w_out, w_stopped, scrapeVars,
                   rateVars, proxyVars, auxVars,
                   root_destroyed, exit_dialog>>

\* The UI thread runs the oldest posted callback: on_scraping_complete or
\* on_scraping_error.
UiHandle ==
    /\ ~root_destroyed
    /\ ui_queue # <<>>
    /\ LET ev == Head(ui_queue)
       IN  w_out' = [w_out EXCEPT ![ev[2]] = Append(@, ev[1])]
    /\ ui_queue' = Tail(ui_queue)
    /\ scraping_active' = FALSE
    /\ start_button' = TRUE
    /\ stop_button' = FALSE
    /\ UNCHANGED <<w_pc, w_scraped, w_conf, w_req, w_res, w_stopped,
                   scrapeVars, rateVars, proxyVars, auxVars,
                   root_destroyed, exit_dialog>>

\* MainWindow.on_closing (WM_DELETE_WINDOW), up to its dialog.  With no
\* scrape shown as in progress the window is destroyed at once; otherwise
\* the modal "Confirm Exit" box opens.  While it is open the event loop
\* keeps running posted callbacks (UiHandle) and the workers go on; the
\* window takes no click.  The engine's stop() is not called and the worker
\* threads are not joined; once the window is destroyed the event loop ends,
\* so callbacks still queued are never run, and a worker inside
\* update_scraping_progress that had read scraping_active before finds
\* root.after raising.
OnClosing ==
    /\ ~root_destroyed
    /\ ~exit_dialog
    /\ IF scraping_active
         THEN /\ exit_dialog' = TRUE
              /\ UNCHANGED root_destroyed
         ELSE /\ root_destroyed' = TRUE
              /\ UNCHANGED exit_dialog
    /\ UNCHANGED <<start_button, stop_button, scraping_active, w_pc,
                   w_scraped, w_conf, w_req, w_res, ui_queue, w_out,
                   w_stopped, scrapeVars, rateVars, proxyVars, auxVars>>

\* The user answers the "Confirm Exit" box: on yes scraping_active is cleared
\* and the window destroyed, on no nothing is written.
OnClosingAnswer(confirm) ==
    /\ exit_dialog
    /\ exit_dialog' = FALSE
    /\ IF confirm
         THEN /\ scraping_active' = FALSE
              /\ root_destroyed' = TRUE
         ELSE UNCHANGED <<scraping_active, root_destroyed>>
    /\ UNCHANGED <<start_button, stop_button, w_pc, w_scraped, w_conf,
                   w_req, w_res, ui_queue, w_out, w_stopped, scrapeVars,
                   rateVars, proxyVars, auxVars>>

NextGui ==
    \/ \E numeric \in BOOLEAN, par \in ParamInputs :
           StartScraping(par[1], numeric, par[2], par[3], par[4])
    \/ GuiStopScraping
    \/ OnClosing
    \/ \E confirm \in BOOLEAN : OnClosingAnswer(confirm)
    \/ \E w \in Workers : WorkerEnter(w)
    \/ \E w \in Workers, ok \in BOOLEAN : WorkerRequest(w, ok)
    \/ \E w \in Workers : ProgressCheck(w)
    \/ \E w \in Workers : ProgressPost(w)
    \/ \E w \in Workers, res \in {"data", "empty", "raised"} :
           WorkerReturn(w, res)
    \/ \E w \in Workers : WorkerPost(w)
    \/ UiHandle


\* ========================================================== ScrapingStats
\* Times are whole seconds; a quotient of the summary is kept as
\* <<"ok", value>> (rounded down) or <<"ZeroDivisionError", 0>>.
Div(a, b) == IF b = 0 THEN <<"ZeroDivisionError", 0>> ELSE <<"ok", a \div b>>
NoSummary == [duration |-> 0, total_requests |-> 0,
              successful_requests |-> 0, failed_requests |-> 0,
              success_rate |-> <<"none", 0>>, total_items_scraped |-> 0,
              scraping_rate |-> <<"none", 0>>, errors |-> <<>>]

\* ScrapingStats.__init__
InitStats ==
    /\ start_time = 0
    /\ end_time = 0
    /\ total_requests = 0
    /\ successful_requests = 0
    /\ failed_requests = 0
    /\ total_items_scraped = 0
    /\ errors = <<>>
    /\ st_now = 1
    /\ st_ops = 0
    /\ summary = NoSummary

\* One more operation on the collector, after `tick` seconds.
StatsOp(tick) ==
    /\ st_ops < MaxStatOps
    /\ st_ops' = st_ops + 1
    /\ st_now' = st_now + tick

\* ScrapingStats.start
StatsStart(tick) ==
    /\ StatsOp(tick)
    /\ start_time' = st_now'
    /\ UNCHANGED <<end_time, total_requests, successful_requests,
                   failed_requests, total_items_scraped, errors, summary,
                   scrapeVars, rateVars, proxyVars, guiVars,
                   parseVars>>

\* ScrapingStats.end
StatsEnd(tick) ==
    /\ StatsOp(tick)
    /\ end_time' = st_now'
    /\ UNCHANGED <<start_time, total_requests, successful_requests,
                   failed_requests, total_items_scraped, errors, summary,
                   scrapeVars, rateVars, proxyVars, guiVars,
                   parseVars>>

\* The dict get_summary returned holds the collector's errors list itself,
\* not a copy: what its holder reads under 'errors' is the list as it is now.
SummaryNow(s, errs) == IF s = NoSummary THEN s ELSE [s EXCEPT !.errors = errs]

\* ScrapingStats.add_request(success, error); error = "" stands for None.
\* errors.append changes the list in place, so a summary returned earlier
\* shows the new entry.
AddRequest(success, error) ==
    /\ StatsOp(0)
    /\ total_requests' = total_requests + 1
    /\ IF success
         THEN /\ successful_requests' = successful_requests + 1
              /\ UNCHANGED <<failed_requests, errors>>
         ELSE /\ failed_requests' = failed_requests + 1
              /\ errors' = IF error # "" THEN Append(errors, error)
                                         ELSE errors
              /\ UNCHANGED successful_requests
    /\ summary' = SummaryNow(summary, errors')
    /\ UNCHANGED <<start_time, end_time, total_items_scraped,
                   scrapeVars, rateVars, proxyVars, guiVars,
                   parseVars>>

\* ScrapingStats.add_item
AddItem ==
    /\ StatsOp(0)
    /\ total_items_scraped' = total_items_scraped + 1
    /\ UNCHANGED <<start_time, end_time, total_requests, successful_requests,
                   failed_requests, errors, summary, scrapeVars, rateVars,
                   proxyVars, guiVars,
                   parseVars>>

\* duration = end_time - start_time if end_time and start_time else 0
Duration(st, et) == IF et # 0 /\ st # 0 THEN et - st ELSE 0

\* (variant) the success rate is computed without the zero test
SuccessRateUnguarded(ok, total) == Div(ok * 100, total)

\* (successful_requests / total_requests * 100) if total_requests > 0 else 0
SuccessRate(ok, total) ==
    IF total > 0 THEN Div(ok * 100, total) ELSE <<"ok", 0>>

\* (total_items_scraped / duration * 60) if duration > 0 else 0
ScrapingRate(items, duration) ==
    IF duration > 0 THEN Div(items * 60, duration) ELSE <<"ok", 0>>

\* ScrapingStats.get_summary: reads the collector, assigns nothing; 'errors'
\* is self.errors, the list object itself (see SummaryNow).
GetSummary ==
    /\ StatsOp(0)
    /\ LET duration == Duration(start_time, end_time)
       IN  summary' =
             [duration |-> duration,
              total_requests |-> total_requests,
              successful_requests |-> successful_requests,
              failed_requests |-> failed_requests,
              success_rate |-> SuccessRate(successful_requests,
                                           total_requests),
              total_items_scraped |-> total_items_scraped,
              scraping_rate |-> ScrapingRate(total_items_scraped, duration),
              errors |-> errors]
    /\ UNCHANGED <<start_time, end_time, total_requests, successful_requests,
                   failed_requests, total_items_scraped, errors, scrapeVars,
                   rateVars, proxyVars, guiVars,
                   parseVars>>

NextStats ==
    \/ \E tick \in {0, 1} : StatsStart(tick)
    \/ \E tick \in {0, 1} : StatsEnd(tick)
    \/ \E success \in BOOLEAN, error \in {"", "timeout"} :
           AddRequest(success, error)
    \/ AddItem
    \/ GetSummary


\* ========================================================= rating parsers
\* A rating text is a sequence of tokens separated by optional white space.
\* A token is a run of digits and dots that float() accepts (its value kept
\* in tenths), a run of digits and dots that float() rejects, one of the
\* words the patterns look for, or any other word.
Num(tenths) == <<"num", tenths>>
BadNum == <<"badnum", 0>>          \* e.g. "." or "4.5.1": float() raises
OutOf == <<"out of", 0>>
Slash == <<"/", 0>>
Stars == <<"stars", 0>>
RatingColon == <<"Rating:", 0>>
Word == <<"word", 0>>

RawTenths == {0, 45, 50, 51, 80, 100, 101, 800, 1200}
Tokens == {Num(d) : d \in RawTenths}
              \cup {BadNum, OutOf, Slash, Stars, RatingColon, Word}
Texts == UNION {[1..n -> Tokens] : n \in 0..MaxTextLen}

\* Results: None, or a float kept in two-hundredths (5.0 is 1000).
None == <<"None", 0>>
Float(v) == <<"float", v>>
NotRun == <<"not run", 0>>

\* [\d.]+
IsDigits(tok) == tok[1] \in {"num", "badnum"}

\* Where pattern k of rating_patterns matches with its first character at
\* token i of text; the value is the index of the token captured by group 1,
\* or 0 when the pattern does not match there.
MatchAt(text, k, i) ==
    LET n == Len(text)
        tokIs(j, t) == j <= n /\ text[j] = t
        digits(j) == j <= n /\ IsDigits(text[j])
    IN  CASE k = 1 -> IF digits(i) /\ tokIs(i + 1, OutOf) /\ digits(i + 2)
                        THEN i ELSE 0
          [] k = 2 -> IF digits(i) /\ tokIs(i + 1, Slash) /\ digits(i + 2)
                        THEN i ELSE 0
          [] k = 3 -> IF digits(i) /\ tokIs(i + 1, Stars) THEN i ELSE 0
          [] k = 4 -> IF tokIs(i, RatingColon) /\ digits(i + 1)
                        THEN i + 1 ELSE 0
          [] OTHER -> IF digits(i) THEN i ELSE 0

\* re.search(pattern k, text): group 1 of the leftmost match, 0 for no match
Search(text, k) ==
    LET starts == {i \in 1..Len(text) : MatchAt(text, k, i) # 0}
    IN  IF starts = {} THEN 0
        ELSE MatchAt(text, k, CHOOSE i \in starts : \A j \in starts : i <= j)

\* BaseScraper.parse_rating, from float(match.group(1)) on
BaseNormalize(tenths) ==
    LET rating == IF tenths > 50 THEN tenths * 10 ELSE tenths * 20
    IN  Float(Min(rating, 1000))

\* DataProcessor._parse_rating, from float(match.group(1)) on
ProcNormalize(tenths) ==
    LET rating == IF tenths > 100 THEN tenths
                  ELSE IF tenths > 50 THEN tenths * 10
                  ELSE tenths * 20
    IN  Float(Min(Max(rating, 0), 1000))

\* The loop over rating_patterns from pattern k on: the first pattern that
\* matches a number float() accepts decides; a ValueError moves on.
RECURSIVE BasePatterns(_, _)
BasePatterns(text, k) ==
    IF k > 5 THEN None
    ELSE LET g == Search(text, k)
         IN  IF g # 0 /\ text[g][1] = "num"
               THEN BaseNormalize(text[g][2])
               ELSE BasePatterns(text, k + 1)

RECURSIVE ProcPatterns(_, _)
ProcPatterns(text, k) ==
    IF k > 5 THEN None
    ELSE LET g == Search(text, k)
         IN  IF g # 0 /\ text[g][1] = "num"
               THEN ProcNormalize(text[g][2])
               ELSE ProcPatterns(text, k + 1)

\* BaseScraper.parse_rating(rating_text)
BaseParseRating(text) ==
    IF text = <<>> THEN None ELSE BasePatterns(text, 1)

\* DataProcessor._parse_rating(rating_text); pd.isna is false of a string
ProcParseRating(text) == ProcPatterns(text, 1)

IdleParse == pr_text = <<>> /\ pr_base = NotRun /\ pr_proc = NotRun

InitParse == pr_text \in Texts /\ pr_base = NotRun /\ pr_proc = NotRun

\* the adapter parses the text
ParseRatingBase ==
    /\ pr_base = NotRun
    /\ pr_base' = BaseParseRating(pr_text)
    /\ UNCHANGED <<pr_text, pr_proc, statsVars, scrapeVars, rateVars,
                   proxyVars, guiVars>>

\* the cleaning stage parses the text
ParseRatingProc ==
    /\ pr_proc = NotRun
    /\ pr_proc' = ProcParseRating(pr_text)
    /\ UNCHANGED <<pr_text, pr_base, statsVars, scrapeVars, rateVars,
                   proxyVars, guiVars>>

NextParse == ParseRatingBase \/ ParseRatingProc

\* ========================================================= specifications
Init == InitScrape /\ IdleRate /\ IdleProxy /\ InitGui /\ InitStats
                /\ IdleParse
Next == NextScrape
Spec == Init /\ [][Next]_vars

InitRateOnly == IdleScrape /\ InitRate /\ IdleProxy /\ InitGui /\ InitStats
                /\ IdleParse
SpecRate == InitRateOnly /\ [][NextRate]_vars

InitProxyOnly == IdleScrape /\ IdleRate /\ InitProxy /\ InitGui /\ InitStats
                /\ IdleParse
SpecProxy == InitProxyOnly /\ [][NextProxy]_vars

InitGuiOnly == IdleScrape /\ IdleRate /\ IdleProxy /\ InitGui /\ InitStats
                /\ IdleParse
SpecGui == InitGuiOnly /\ [][NextGui]_vars

InitStatsOnly == IdleScrape /\ IdleRate /\ IdleProxy /\ InitGui /\ InitStats
                /\ IdleParse
SpecStats == InitStatsOnly /\ [][NextStats]_vars

InitParseOnly == IdleScrape /\ IdleRate /\ IdleProxy /\ InitGui /\ InitStats
                 /\ InitParse
SpecParse == InitParseOnly /\ [][NextParse]_vars

\* =================================================================== claims
ItemLoopPcs == {"item_check", "item_cb", "item_req", "item_sleep"}
ItemReqs == SelectSeq(reqLog, LAMBDA q : q[1] = "item")
ListingReqs == SelectSeq(reqLog, LAMBDA q : q[1] \in {"links", "next"})
ReqTargets(reqs) == [j \in 1..Len(reqs) |-> reqs[j][2]]
\* The call sites at which a progress_callback call raised.
CbRaisedAt(site) == \E e \in cbRaised : e[1] = site
\* The links of product_links whose turn was not skipped because the item
\* loop's progress_callback call raised.
NotSkipped ==
    LET keep == SelectSeq([j \in 1..Len(product_links) |-> j],
                          LAMBDA j : <<"item", j>> \notin cbRaised)
    IN  [m \in 1..Len(keep) |-> product_links[keep[m]]]

\* The links the listing pages handed over, read off the request history:
\* a next-page lookup is made exactly for a page that yielded links, and the
\* page yields its first links up to the quota left at that point.
RECURSIVE Collected(_, _)
Collected(reqs, acc) ==
    IF reqs = <<>> THEN acc
    ELSE Collected(Tail(reqs),
                   acc \o PageLinks(Head(reqs)[2][1], max_products - Len(acc)))
CollectedLinks ==
    Collected(SelectSeq(reqLog, LAMBDA q : q[1] = "next"), <<>>)

\* C1: the records accumulated by scrape() never number more than
\* max_products at any point of the run, and neither do the returned
\* records, for the paged and for the flat adapter.
C1_QuotaRespected ==
    /\ Len(scraped_data) <= max_products
    /\ Len(result.data) <= max_products
    /\ Len(product_links) <= max_products

\* C1 witness: a flat run that returned exactly max_products records from a
\* page holding more quotes than the quota.
C1_Witness ==
    /\ pc = "done" /\ site_name = Quotes
    /\ max_products > 0 /\ Len(result.data) = max_products
    /\ ipp[1] > max_products /\ failedItems = {}
    /\ Len(reqLog) <= 3

\* C2: no item whose fetch or parse failed has an entry among the
\* accumulated or returned records.
C2_OnlyParsedRecords ==
    /\ Range(scraped_data) \cap failedItems = {}
    /\ Range(result.data) \cap failedItems = {}

\* C2 witness: a paged run returned records although one item returned
\* nothing and another raised.
C2_Witness ==
    /\ pc = "done" /\ site_name = Books
    /\ Cardinality(failedItems) >= 2
    /\ Len(result.data) >= 1
    /\ Len(product_links) = Len(result.data) + Cardinality(failedItems)

\* C3: when stop() is called while the item loop runs, at most one item
\* fetch completes after it: the one in flight, or the one the loop was
\* about to start because it had already passed its poll.  No other request
\* is started, the records accumulated at that moment stay a prefix of the
\* accumulated records, at most the record of that one fetch is added, and
\* what scrape() returns is exactly that sequence (scrape() returns unless
\* its completion callback raises).
C3_StopKeepsRecords ==
    pcAtStop \in ItemLoopPcs =>
        /\ stopReqs <= (IF pcAtStop = "item_cb" THEN 1 ELSE 0)
        /\ IsPrefix(dataAtStop, scraped_data)
        /\ Len(scraped_data) <=
               Len(dataAtStop)
                 + (IF pcAtStop \in {"item_cb", "item_req"} THEN 1 ELSE 0)
        /\ pc \in ItemLoopPcs \cup {"finish", "done"}
        /\ pc = "done" =>
              IF CbRaisedAt("end") THEN result = Raised
                                   ELSE result = Returned(scraped_data)

\* C3 witness: stop() arrived during an item fetch, that fetch's record was
\* kept on top of an earlier one, and the run returned with links left over.
C3_Witness ==
    /\ pc = "done" /\ pcAtStop = "item_req" /\ cbRaised = {}
    /\ Len(dataAtStop) >= 1
    /\ Len(result.data) = Len(dataAtStop) + 1
    /\ idx <= Len(product_links)

\* C4 (as claimed): once the stop flag is true the worker starts no new HTTP
\* request in any phase of the run.
C4_NoRequestAfterStop == stopReqs = 0

\* C7 (as claimed): every HTTP request of the run is preceded by a
\* RateLimiter.wait() call.
C7_EveryRequestWaits == waitCalls >= Len(reqLog)

\* C10: when get_product_links fails on a listing page and the run is not
\* stopped, pagination ends there (that page's request is the last listing
\* request), scrape() still returns data, every link collected before is
\* requested by the item loop in order, and each of them either failed on
\* its own or has its record in the result.
C10_PageFailureKeepsLinks ==
    (site_name = Books /\ failedPages # {} /\ ~stop_scraping
       /\ cbRaised = {}) =>
        /\ Cardinality(failedPages) = 1
        /\ ListingReqs[Len(ListingReqs)][1] = "links"
        /\ ListingReqs[Len(ListingReqs)][2][1] \in failedPages
        /\ pc = "done" =>
             /\ result.status = "data"
             /\ product_links = CollectedLinks
             /\ ReqTargets(ItemReqs) = CollectedLinks
             /\ \A j \in 1..Len(CollectedLinks) :
                  \/ \E rec \in failedItems : LinkOf(rec) = CollectedLinks[j]
                  \/ \E m \in 1..Len(result.data) :
                       LinkOf(result.data[m]) = CollectedLinks[j]

\* C10 witness: page 2 failed after page 1 gave its links, and every one of
\* those links has its record in the returned data.
C10_Witness ==
    /\ pc = "done" /\ site_name = Books /\ ~stop_scraping
    /\ cbRaised = {}
    /\ failedPages = {2}
    /\ Len(CollectedLinks) >= 2
    /\ LinksOf(result.data) = CollectedLinks

\* C5: at every moment the timestamps recorded within the trailing window
\* (those less than 60 seconds older than the latest one) number at most
\* requests_per_minute, whichever threads made the calls.
C5_WindowCap == Len(rl_hist) <= rl_rpm

\* C5 witness: the cap made a caller sleep, and the window is full again.
C5_Witness ==
    /\ Len(rl_hist) = rl_rpm
    /\ Len(rl_queue) > rl_rpm
    /\ rl_lock = 0

\* C6: two consecutively recorded timestamps are at least min_delay apart.
C6_MinGap ==
    \A j \in 1..(Len(rl_hist) - 1) : rl_hist[j + 1] - rl_hist[j] >= MinDelay

\* C6 witness: two calls came with no idle time between them and were
\* recorded exactly min_delay apart.
C6_Witness ==
    /\ Len(rl_hist) >= 2
    /\ rl_hist[2] - rl_hist[1] = MinDelay
    /\ rl_lock = 0

\* C8: a proxy returned by get_proxy() is not in the failed set at the
\* moment it is returned, and a caller that found every proxy failed has
\* emptied the failed set before anything is returned to it.
C8_NoFailedProxyReturned ==
    \A t \in DOMAIN px_pc :
        /\ px_ret[t] # 0 => px_ret[t] \notin px_retFailed[t]
        /\ px_depth[t] > 0 => px_failed = {}

\* C8 witness: the first get_proxy() skipped the failed proxies at the head
\* of the list and returned the only proxy that is not failed.
C8_Witness ==
    \E t \in DOMAIN px_pc :
        /\ px_n >= 2 /\ px_calls = 1
        /\ px_ret[t] = px_n
        /\ px_retFailed[t] = 1..(px_n - 1)

\* C9 (as claimed): get_proxy() called with every proxy marked failed does
\* not hang: no caller ever waits for the rotator's lock while holding it.
C9_ResetRetryReturns ==
    \A t \in DOMAIN px_pc : ~(px_pc[t] = "acquire" /\ px_lock = t)

\* C11: an item whose turn raised (in scrape_product or in the progress
\* callback before it) or whose scrape_product returned nothing never ends
\* the run: in a paged run that was not stopped and returned, every
\* collected link is requested by the item loop, in order, except those
\* whose progress callback raised, and every one of those requests either
\* failed on its own or has its record in the returned data.
C11_ItemFailureContinues ==
    (site_name = Books /\ pc = "done" /\ ~stop_scraping
       /\ result.status = "data") =>
        /\ ReqTargets(ItemReqs) = NotSkipped
        /\ \A r \in 1..Len(reqLog) :
              reqLog[r][1] = "item" =>
                  \/ Record(reqLog[r][2], r) \in failedItems
                  \/ Record(reqLog[r][2], r) \in Range(result.data)
        /\ Len(result.data) + Cardinality(failedItems) = Len(NotSkipped)

\* C11 witness: the first item of a paged run failed and a later item's
\* record is in the returned data.
C11_Witness ==
    /\ pc = "done" /\ site_name = Books /\ ~stop_scraping
    /\ Len(product_links) >= 3
    /\ \E rec \in failedItems :
          /\ LinkOf(rec) = product_links[1]
          /\ \E m \in 1..Len(result.data) : result.data[m][3] > rec[3]
    /\ LinkOf(result.data[Len(result.data)]) =
           product_links[Len(product_links)]

\* C12: scrape_site() with a site name that is not registered raises before
\* any HTTP request is made and leaves the engine as it was: the stop flag
\* is true exactly when stop() set it, the call neither clears nor sets it.
C12_UnknownSiteRaises ==
    site_name \notin scrapers =>
        /\ reqLog = <<>>
        /\ pc \in {"idle", "done"}
        /\ stop_scraping <=> (pcAtStop # "")
        /\ scraped_data = <<>> /\ all_links = <<>> /\ current_url = 0
        /\ pc = "done" => result = Raised

\* C12 witness: stop() had set the flag before the call; the call raised
\* and the flag is still set.
C12_Witness ==
    /\ site_name \notin scrapers
    /\ pc = "done" /\ result = Raised
    /\ stop_scraping /\ pcAtStop = "idle"

\* C14 (as claimed): a request failure on a listing page of a paged run
\* makes scrape() raise when no link had been collected before it, and is
\* absorbed (scrape() returns data) when at least one link had been.
C14_FailurePropagatesBeforeLinks ==
    (site_name = Books /\ pc = "done" /\ failedPages # {}) =>
        IF CollectedLinks = <<>> THEN result.status = "error"
                                 ELSE result.status = "data"

\* C14 (amended): a request failure never makes scrape() raise (scrape()
\* raises only when the caller's progress callback does).  On a
\* listing page reached before any link was collected it ends pagination
\* with no links, and scrape() returns an empty result without requesting
\* any item; on a later listing page or on an item page it is absorbed and
\* scrape() returns the accumulated data.
C14_FailureAlwaysAbsorbed ==
    (site_name = Books /\ pc = "done"
       /\ (failedPages # {} \/ failedItems # {})) =>
        /\ result.status = "data" \/ CbRaisedAt("end")
        /\ CollectedLinks = <<>> =>
              /\ result = Returned(<<>>)
              /\ ItemReqs = <<>>
              /\ failedItems = {}

\* C14 witness: the request for the first listing page failed, nothing else
\* was requested, and scrape() returned an empty result.
C14_Witness ==
    /\ site_name = Books /\ pc = "done" /\ ~category_filter
    /\ max_products > 0 /\ ipp[1] > 0
    /\ failedPages = {1} /\ cbRaised = {}
    /\ reqLog = << <<"links", <<1, 0>> >> >>
    /\ result = Returned(<<>>)

\* C15: when pagination of a paged run is entered (the progress callback
\* before it did not raise) and collects no link at all, scrape()
\* returns an empty result, not an error, and the item loop is never
\* entered: no item page is requested.
C15_NoLinksEmptyResult ==
    (site_name = Books /\ pc = "done" /\ CollectedLinks = <<>>
       /\ ~CbRaisedAt("start")) =>
        /\ result = Returned(<<>>)
        /\ product_links = <<>>
        /\ idx = 0
        /\ ItemReqs = <<>>

\* C15 witness: the only listing page was fetched and parsed, held no item
\* link, and the run returned an empty result.
C15_Witness ==
    /\ site_name = Books /\ pc = "done" /\ ~stop_scraping
    /\ max_products > 0 /\ ipp[1] = 0 /\ failedPages = {}
    /\ cbRaised = {}
    /\ reqLog = << <<"links", <<1, 0>> >> >>
    /\ result = Returned(<<>>)

\* The first n item links of a site whose pages hold p links each, walking
\* the pages from page 1 along the next links.
LinksInOrder(n, p) ==
    [j \in 1..n |-> <<(((j - 1) \div p) % np) + 1, ((j - 1) % p) + 1>>]
LinksReqs == SelectSeq(reqLog, LAMBDA q : q[1] = "links")

\* C16: on a site whose listing pages hold p links each, a paged run from
\* page 1 with max_products = N not a multiple of p, which was never
\* stopped, met no failure and visited N div p + 1 pages, collected exactly
\* the first N links in order (all p of each full page, N mod p of the last
\* page visited), requested exactly those N item pages and returned their
\* N records.
C16_PartialLastPage ==
    \A p \in 1..MaxPerPage :
        (/\ site_name = Books /\ pc = "done" /\ ~category_filter
         /\ pcAtStop = "" /\ failedPages = {} /\ failedItems = {}
         /\ cbRaised = {}
         /\ ipp[1] = p /\ max_products % p # 0
         /\ Len(LinksReqs) = (max_products \div p) + 1) =>
            /\ all_links = LinksInOrder(max_products, p)
            /\ product_links = LinksInOrder(max_products, p)
            /\ ReqTargets(ItemReqs) = LinksInOrder(max_products, p)
            /\ LinksOf(result.data) = LinksInOrder(max_products, p)
            /\ ReqTargets(LinksReqs) =
                   [j \in 1..Len(LinksReqs) |-> <<((j - 1) % np) + 1, 0>>]

\* C16 witness: two pages of three items and max_products = 4 gave three
\* links from page 1, one from page 2, and four records.
C16_Witness ==
    /\ site_name = Books /\ pc = "done" /\ ~cyc /\ cbRaised = {}
    /\ np = 2 /\ ipp[1] = 3 /\ max_products = 4
    /\ all_links = << <<1, 1>>, <<1, 2>>, <<1, 3>>, <<2, 1>> >>
    /\ LinksOf(result.data) = all_links
    /\ ReqTargets(ItemReqs) = all_links

\* C17: a flat run without tag filter on a site of one listing page that
\* holds k quotes and has no next link, with max_products > k, never stopped
\* and without failure, returns exactly the k quotes in page order, and
\* every request it made (the page fetch and the next-page lookup) went to
\* that one listing page.
C17_SinglePageFlat ==
    (/\ site_name = Quotes /\ pc = "done"
     /\ np = 1 /\ ~cyc /\ ~category_filter
     /\ max_products > ipp[1]
     /\ pcAtStop = "" /\ failedPages = {} /\ failedItems = {}
     /\ cbRaised = {}) =>
        /\ LinksOf(result.data) = [k \in 1..ipp[1] |-> <<1, k>>]
        /\ result.status = "data"
        /\ \A r \in 1..Len(reqLog) : reqLog[r][2] = <<1, 0>>
        /\ Len(SelectSeq(reqLog, LAMBDA q : q[1] = "quotes")) = 1

\* C17 witness: one page of three quotes and max_products = 4 returned the
\* three quotes in page order.
C17_Witness ==
    /\ site_name = Quotes /\ pc = "done"
    /\ np = 1 /\ ~cyc /\ ~category_filter
    /\ ipp[1] = 3 /\ max_products = 4 /\ cbRaised = {}
    /\ LinksOf(result.data) = << <<1, 1>>, <<1, 2>>, <<1, 3>> >>
    /\ Len(reqLog) = 2

\* C18 (as claimed): scrape() returns on every site without help from the
\* stop flag.  A run whose requests all succeed is deterministic, so it can
\* only return if no lap of its page loop brings it back to a listing page
\* it already fetched in the same state: between two fetches of one listing
\* page the paged adapter must have gained links (a next-page lookup was
\* made) and the flat adapter must have gained a record.
C18_LoopMakesProgress ==
    (failedPages = {} /\ failedItems = {}) =>
        \A i \in 1..Len(reqLog), j \in 1..Len(reqLog) :
            (i < j /\ reqLog[i] = reqLog[j]) =>
                /\ reqLog[i][1] = "links" =>
                      \E r \in i..j : reqLog[r][1] = "next"
                /\ reqLog[i][1] = "quotes" =>
                      \E m \in 1..Len(scraped_data) :
                          scraped_data[m][3] \in i..(j - 1)

InvalidConf(conf) == conf.max_products <= 0 \/ conf.delay < 0
\* The final callbacks worker w has posted so far, handled or still queued.
Posted(w) ==
    LET queued == SelectSeq(ui_queue, LAMBDA ev : ev[2] = w)
    IN  w_out[w] \o [j \in 1..Len(queued) |-> queued[j][1]]

\* C13 (as claimed): a run whose max_products is zero (or less) or whose
\* delay is negative is rejected by start_scraping: no worker thread is
\* started with such arguments and no HTTP request is made for them.
C13_InvalidParamsRejected ==
    \A w \in Workers :
        InvalidConf(w_conf[w]) => (w_pc[w] = "none" /\ w_req[w] = 0)

\* C19 (as claimed): whatever the user clicks, at most one worker is
\* executing a scrape call against the engine at any time.
C19_OneWorkerAtATime == Cardinality(Executing) <= 1

\* C20 (as claimed): a worker posts no final callback before its
\* scrape_site call has returned or raised, and every worker whose thread
\* has ended has posted exactly one: the completion callback for a
\* non-empty result, the error callback for an empty result or an
\* exception; never both, never neither; and what it posted reaches the UI
\* thread, so none is left unrun in a window that is gone.
C20_AlwaysOneFinalOutcome ==
    \A w \in Workers :
        /\ Len(Posted(w)) <= 1
        /\ w_pc[w] \in {"finished", "lost"} <=> Len(Posted(w)) = 1
        /\ Len(Posted(w)) = 1 =>
              /\ w_res[w] # "none"
              /\ Posted(w)[1] = IF w_res[w] = "data" THEN "complete"
                                                     ELSE "error"
              /\ root_destroyed => w_out[w] = Posted(w)

\* What holds of the final callbacks in every state: a worker has posted at
\* most one, and has posted one exactly if its thread ended with the post
\* made ("finished"); the one posted is the completion callback for a
\* non-empty result and the error callback otherwise; the UI thread has run
\* no callback twice; a thread that ended without posting ("lost") did so in
\* a destroyed window.
C20_PostedOnce ==
    \A w \in Workers :
        /\ Len(Posted(w)) <= 1
        /\ w_pc[w] = "finished" <=> Len(Posted(w)) = 1
        /\ w_pc[w] = "lost" => root_destroyed /\ Posted(w) = <<>>
        /\ Len(Posted(w)) = 1 =>
              /\ w_res[w] # "none"
              /\ Posted(w)[1] = IF w_res[w] = "data" THEN "complete"
                                                     ELSE "error"

\* What one step may do: a worker leaves the point where its scrape call has
\* ended by posting its one callback if the window exists at that moment and
\* by posting nothing if it has been destroyed; the queue and the handled
\* outcomes change only by such a post or by the UI thread running the
\* callback at the head of the queue, which it never does in a destroyed
\* window, so a callback still queued when the window goes is never run.
C20_PostAndRun ==
    /\ \A w \in Workers :
          (w_pc[w] = "returned" /\ w_pc'[w] # "returned") =>
              IF root_destroyed
                THEN w_pc'[w] = "lost" /\ UNCHANGED <<ui_queue, w_out>>
                ELSE /\ w_pc'[w] = "finished"
                     /\ Len(ui_queue') = Len(ui_queue) + 1
                     /\ UNCHANGED w_out
    /\ <<ui_queue, w_out>>' # <<ui_queue, w_out>> =>
          \/ \E w \in Workers :
                /\ w_pc[w] = "returned" /\ w_pc'[w] = "finished"
                /\ SubSeq(ui_queue', 1, Len(ui_queue)) = ui_queue
                /\ \A j \in (Len(ui_queue) + 1)..Len(ui_queue') :
                       ui_queue'[j][2] = w
          \/ /\ ~root_destroyed
             /\ ui_queue # <<>>
             /\ ui_queue' = Tail(ui_queue)
             /\ w_out' = [w_out EXCEPT ![Head(ui_queue)[2]] =
                            Append(@, Head(ui_queue)[1])]

\* C20 (amended): a worker posts a final callback only after its scrape_site
\* call has returned or raised, and at most one, the completion callback for
\* a non-empty result and the error callback otherwise, never both; it posts
\* exactly one if the window exists when it comes to post and none if the
\* window has been destroyed by then; the UI thread runs each posted
\* callback at most once and none after the window is destroyed.
C20_OneFinalOutcome == [] C20_PostedOnce /\ [][C20_PostAndRun]_vars

\* C20 witness: one worker's result has been handled by the UI thread,
\* once; the window was closed while a second worker was inside the progress
\* callback, whose root.after raised, and that worker's thread ended with
\* nothing posted.
C20_Witness ==
    /\ w_out[1] = <<"complete">> /\ w_res[1] = "data"
    /\ w_pc[2] = "lost" /\ w_res[2] = "raised"
    /\ root_destroyed /\ ui_queue = <<>>

\* C25 (as claimed): the item loop sleeps the per-item delay only after an
\* item whose parse succeeded and only when another link follows it.
C25_SleepOnlyBetweenParsed ==
    pc = "item_sleep" =>
        /\ idx < Len(product_links)
        /\ Record(product_links[idx], Len(reqLog)) \notin failedItems

\* C29 (as claimed): a stop() call made while scrape_site() is executing is
\* never lost: from then on the stop flag is true, so the run's next poll
\* observes it.
C29_StopNeverLost == pcAtStop \notin {"", "idle"} => stop_scraping

\* The links collected before the k-th listing request was made.
CollectedBefore(k) ==
    Collected(SelectSeq(SubSeq(ListingReqs, 1, k - 1),
                        LAMBDA q : q[1] = "next"), <<>>)

\* The requests of the run that went to listing page p, whatever for: the
\* front-page fetch of a category filter goes to page 1.
PageReqs(p) == SelectSeq(reqLog, LAMBDA q : q[2] = <<p, 0>>)

\* C30 (as claimed): in a paged run no listing page is requested once the
\* collected links have reached max_products (no next-page lookup is in
\* flight with the quota met), and no listing page is requested twice.
C30_NoListingRequestAfterQuota ==
    site_name = Books =>
        /\ pc = "next_req" => Len(all_links) < max_products
        /\ \A p \in Pages : Len(PageReqs(p)) <= 1

\* C30 (amended): in a paged run the listing requests come in pairs, the
\* get_product_links request of a page followed by the next-page lookup of
\* that same page; a get_product_links request is made only while the
\* collected links are fewer than max_products, so the one listing request
\* that can follow the quota being met is the next-page lookup of the page
\* that met it; and on a site whose next links form no cycle no page gets a
\* second request of the same kind, so the loop requests a page at most
\* twice; the front-page fetch of a category filter is one more request of
\* page 1, which thus gets at most three requests, and any other page at
\* most two.
C30_ListingRequestPairs ==
    site_name = Books =>
        /\ \A k \in 1..Len(ListingReqs) :
              IF k % 2 = 1
                THEN /\ ListingReqs[k][1] = "links"
                     /\ Len(CollectedBefore(k)) < max_products
                ELSE /\ ListingReqs[k][1] = "next"
                     /\ ListingReqs[k][2] = ListingReqs[k - 1][2]
        /\ ~cyc =>
              /\ \A i \in 1..Len(ListingReqs), j \in 1..Len(ListingReqs) :
                    i < j => ListingReqs[i] # ListingReqs[j]
              /\ \A p \in Pages :
                    Len(PageReqs(p)) <=
                        2 + (IF p = 1 /\ category_filter THEN 1 ELSE 0)
        /\ Len(SelectSeq(reqLog, LAMBDA q : q[1] = "front")) =
              (IF category_filter /\ pc \notin {"idle", "reset", "begin"}
                 THEN 1 ELSE 0)

\* C30 witness: a run with a category filter that found no category page
\* started at page 1 of two, which met the quota: page 1 was requested three
\* times (the front-page fetch, its links, the next-page lookup) and page 2
\* was never requested.
C30_Witness ==
    /\ site_name = Books /\ pc = "done" /\ ~cyc /\ category_filter
    /\ np = 2 /\ ipp[1] = 3 /\ max_products = 3
    /\ ListingReqs = << <<"links", <<1, 0>> >>, <<"next", <<1, 0>> >> >>
    /\ Len(PageReqs(1)) = 3 /\ PageReqs(2) = <<>>
    /\ Len(result.data) = 3

\* C26 (as claimed): the request_times queue is always ordered by
\* non-decreasing timestamp with the oldest entry at its head, and while a
\* caller is past the pruning step of wait() the queue holds only
\* timestamps less than 60 seconds older than the time the caller read.
C26_QueueOrderedInWindow ==
    /\ \A j \in 1..(Len(rl_queue) - 1) : rl_queue[j] <= rl_queue[j + 1]
    /\ \A t \in DOMAIN rl_pc :
          rl_lock = t =>
              \A j \in 1..Len(rl_queue) :
                  rl_current_time[t] - rl_queue[j] < Window

\* The first proxy after p, in cyclic list order, that is not in `failed`.
NextUsableAfter(p, failed) ==
    CHOOSE q \in Proxies \ failed :
        \A r \in Proxies \ failed :
            (q - p - 1 + px_n) % px_n <= (r - p - 1 + px_n) % px_n

\* C27: get_proxy() rotates round-robin.  The rotation index stays within
\* the list; the first call with nothing failed returns the first proxy;
\* of two successive returns under the same failed set the second is the
\* next non-failed proxy after the first in cyclic list order; and m
\* successive returns under one failed set that leaves m proxies usable
\* return each usable proxy exactly once.
C27_RoundRobin ==
    /\ px_n > 0 => px_index \in 0..(px_n - 1)
    /\ (Len(px_hist) >= 1 /\ px_hist[1][2] = {}) => px_hist[1][1] = 1
    /\ \A j \in 1..(Len(px_hist) - 1) :
          px_hist[j][2] = px_hist[j + 1][2] =>
              px_hist[j + 1][1] = NextUsableAfter(px_hist[j][1], px_hist[j][2])
    /\ \A j \in 1..Len(px_hist) :
          LET failed == px_hist[j][2]
              m == px_n - Cardinality(failed)
          IN  (/\ j + m - 1 <= Len(px_hist)
               /\ \A i \in j..(j + m - 1) : px_hist[i][2] = failed) =>
                  {px_hist[i][1] : i \in j..(j + m - 1)} = Proxies \ failed

\* C27 witness: of three proxies the second was marked failed after the
\* first call; the calls returned proxy 1, then 3, 1, 3.
C27_Witness ==
    /\ px_n = 3 /\ Len(px_hist) = 4
    /\ px_hist[1] = <<1, {}>>
    /\ px_hist[2] = <<3, {2}>>
    /\ px_hist[3] = <<1, {2}>>
    /\ px_hist[4] = <<3, {2}>>

\* C28 (as claimed): once the user has clicked Stop while a worker was
\* running, the engine's stop flag is true for as long as that worker is
\* still executing its scrape call, and no final outcome of that run is
\* handled by the UI afterwards.
C28_GuiStopReachesEngine ==
    \A w \in w_stopped :
        /\ w \in Executing => stop_scraping
        /\ w_out[w] = <<>>

\* ---------------------------------------------------------------------- C21
\* What one step may do to the collector: counters and errors only grow; a
\* step after which the last summary reads differently either left the
\* collector as it was (get_summary returned a new one) or appended an error
\* text, which the summary returned earlier shows as well.
C21_StatsStep ==
    /\ total_requests' >= total_requests
    /\ successful_requests' >= successful_requests
    /\ failed_requests' >= failed_requests
    /\ total_items_scraped' >= total_items_scraped
    /\ IsPrefix(errors, errors')
    /\ summary' # summary =>
           \/ UNCHANGED <<start_time, end_time, total_requests,
                          successful_requests, failed_requests,
                          total_items_scraped, errors>>
           \/ /\ summary # NoSummary
              /\ errors' # errors
              /\ summary' = [summary EXCEPT !.errors = errors']

\* What holds of the collector in every state: the request counters add up,
\* the last summary was computed without raising, and its 'errors' is the
\* collector's list.
C21_StatsState ==
    /\ total_requests = successful_requests + failed_requests
    /\ summary.success_rate[1] # "ZeroDivisionError"
    /\ summary.scraping_rate[1] # "ZeroDivisionError"
    /\ summary # NoSummary => summary.errors = errors

\* C21: after any sequence of ScrapingStats operations no counter has
\* decreased, no entry has left errors, total_requests equals
\* successful_requests + failed_requests, and get_summary succeeds in every
\* state (before start/end and with zero requests included) without changing
\* the collector.
C21_StatsAdditive == [] C21_StatsState /\ [][C21_StatsStep]_vars

\* A summary was read with no request counted and no start or end recorded,
\* and a failed request with an error text was counted afterwards: the
\* summary still reads zero requests and shows the error text.
C21_Witness ==
    /\ summary # NoSummary
    /\ summary.total_requests = 0
    /\ summary.duration = 0
    /\ summary.success_rate = <<"ok", 0>>
    /\ failed_requests > 0
    /\ Len(errors) > 0
    /\ summary.errors = errors

\* ---------------------------------------------------------------------- C22
\* C22: every per-item and per-page failure the orchestrator absorbs is
\* counted in the statistics collector: when a run has returned, the
\* collector's failed-request count is at least the number of listing pages
\* and items whose failure was absorbed.
C22_AbsorbedFailuresCounted ==
    (pc = "done" /\ result # Raised) =>
        failed_requests >= Cardinality(failedItems) + Cardinality(failedPages)

\* ---------------------------------------------------------------------- C23
\* The raw value (in tenths) the adapter's parser extracts from a text:
\* the number captured by the first pattern whose match float() accepts;
\* -1 when there is none.
RECURSIVE RawFrom(_, _)
RawFrom(text, k) ==
    IF k > 5 THEN -1
    ELSE LET g == Search(text, k)
         IN  IF g # 0 /\ text[g][1] = "num" THEN text[g][2]
                                            ELSE RawFrom(text, k + 1)
ExtractedRaw(text) == IF text = <<>> THEN -1 ELSE RawFrom(text, 1)

\* r when r <= 5, r/2 when 5 < r <= 10, r/20 when r > 10, clamped to [0, 5]
\* (r in tenths, the result in two-hundredths)
Rescaled(tenths) ==
    LET v == IF tenths <= 50 THEN tenths * 20
             ELSE IF tenths <= 100 THEN tenths * 10
             ELSE tenths
    IN  Min(Max(v, 0), 1000)

\* C23: for every raw rating value r the adapter's parser extracts, its
\* result is r when r <= 5, r/2 when 5 < r <= 10, r/20 when r > 10, clamped
\* into [0, 5].
C23_AdapterRescaleRule ==
    (pr_base # NotRun /\ ExtractedRaw(pr_text) >= 0) =>
        pr_base = Float(Rescaled(ExtractedRaw(pr_text)))

\* ---------------------------------------------------------------------- C24
\* C24: the adapter's rating parser and the cleaning stage's rating parser
\* return the same value for every rating text, raw values above 10
\* included.
C24_ParsersAgree ==
    (pr_base # NotRun /\ pr_proc # NotRun) => pr_base = pr_proc
=============================================================================
